---- MODULE Spec2Model ----
(***************************************************************************)
(* Model of the path-safety and search engine of code-tools-mcp.           *)
(*                                                                         *)
(* Strings are sequences of one-character strings, so that the string      *)
(* comparisons of the code (startsWith, ===, basename) are computed on     *)
(* characters.  A path is a sequence of names (each name a string); the    *)
(* absolute path string of <<n1, n2>> is "/n1/n2", that of <<>> is "/".     *)
(***************************************************************************)
EXTENDS Integers, Sequences, FiniteSets, TLC

VARIABLES
    roots,      \* WORKSPACE_ROOTS: the ordered root list (absolute paths)
    rootsReal,  \* WORKSPACE_ROOTS_REAL: root -> cached canonical form
    links,      \* the file system's symbolic links: link path -> target
    call,       \* the request being served, or Idle
    ret,        \* its result, or Idle
    corpus,         \* the files under the search path: file -> its matching line numbers
    blockedFiles,        \* the files the path policy blocks
    signalAborted,  \* signal.aborted of the search in progress (cancellation or timeout)
    proc,           \* the ripgrep subprocess: "none", "running", "killed" or "failed"
    stdout,         \* the match events the subprocess wrote and the parser has not read
    entries,        \* the file list of fast-glob (entries / files)
    entryIndex,     \* position of fallbackSearch's loop over entries (0-based)
    matches,        \* matches / results: the collected matches, in push order
    matchCount,     \* matchCount of grepTool and ripgrepTool
    truncated,      \* truncated
    aborted,        \* aborted of parseRipgrepJson and ripgrepTool
    stop,           \* stop of grepTool
    nextFileIndex,  \* nextFileIndex of grepTool (0-based)
    workers,        \* grepTool's workers: each one's position and file
    lastSearch,     \* the previous search and what it returned, or Idle
    ignoreFiles,    \* the ignore files on disk: mtimeMs of each, 0 when missing
    clock,          \* the file system's clock
    IGNORE_CACHE,   \* ignore.ts: the cached matcher { root, key, filter }, or Idle
    matchersBuilt,  \* how many matcher objects were compiled so far
    compiled,       \* the last call of buildIgnoreFilter and what it returned
    prevCompile,    \* the compile before it, since the roots were last replaced
    staleBelow,     \* matchers up to this one predate the last replacement
    RG_ON_PATH,     \* the cached answer of the probe: "null", "true" or "false"
    rgEnv,          \* the machine: is rg on PATH, is there a downloaded rg
    searches,       \* the searches in progress: each one's place in strategy selection
    rgLog,          \* probes spawned and downloads attempted since the process started
    parser          \* parseRipgrepJson on raw output: pending, and the chunks read so far

pathVars == <<roots, rootsReal, links, call, ret>>

\* The locals of one search invocation.
searchLocals ==
    <<proc, stdout, entries, entryIndex, matches, matchCount, truncated,
      aborted, stop, nextFileIndex, workers>>

searchVars == <<corpus, blockedFiles, signalAborted, searchLocals>>

\* The state of the ignore cache and of the observations kept across requests.
ignoreVars == <<ignoreFiles, clock, IGNORE_CACHE, matchersBuilt, compiled,
                prevCompile, staleBelow>>

\* The search binary: the probe's answer, the machine, the selections in
\* progress.
rgVars == <<RG_ON_PATH, rgEnv, searches, rgLog>>

laterVars == <<lastSearch, ignoreVars, rgVars, parser>>

vars == <<pathVars, searchVars, laterVars>>

-----------------------------------------------------------------------------
(* Bounds *)

\* Longest caller-supplied path, in segments.
MaxLen == 2

\* Largest max_output_bytes tried besides the default.
MaxByteCap == 30

\* Longest list of roots a client sends.
MaxUris == 2

\* Most lines of a file that read_file pages through.
MaxFileLines == 4

\* Longest line of an ignore file, in characters.
MaxPatLen == 3

\* Longest line of a searched file, and longest pattern of letters.
MaxLineLen == 2

\* Longest output of the subprocess, in characters.
MaxStream == 4

\* Searches in progress at once, and searches started by one process.
MaxConcurrent == 2
MaxSearches == 3

\* The file system's clock stops here; so many matchers are compiled at most.
MaxClock == 2
MaxMatchers == 2

-----------------------------------------------------------------------------
(* Names and strings *)

SEP == "/"

WS      == <<"w", "s">>
WSEVIL  == <<"w", "s", "-", "e">>
SUB     == <<"a">>
LNK     == <<"l">>
DOT     == <<".">>
DOTDOT  == <<".", ".">>
GIT     == <<".", "g", "i", "t">>
HG      == <<".", "h", "g">>
SVN     == <<".", "s", "v", "n">>
ENV     == <<".", "e", "n", "v">>
GITHUB  == <<".", "g", "i", "t", "h">>
CACHE   == <<".", "c">>

Idle == [kind |-> "idle"]

StartsWith(s, t) == Len(t) <= Len(s) /\ SubSeq(s, 1, Len(t)) = t

RECURSIVE JoinWith(_, _)
\* segs.join(sep)
JoinWith(segs, sep) ==
    IF segs = <<>> THEN <<>>
    ELSE IF Len(segs) = 1 THEN segs[1]
    ELSE segs[1] \o <<sep>> \o JoinWith(Tail(segs), sep)

\* The string of an absolute, normalized path.
AbsStr(p) == <<SEP>> \o JoinWith(p, SEP)

RECURSIVE SplitFrom(_, _, _)
\* s.split(sep): cur is the segment being read.
SplitFrom(s, sep, cur) ==
    IF s = <<>> THEN <<cur>>
    ELSE IF Head(s) = sep THEN <<cur>> \o SplitFrom(Tail(s), sep, <<>>)
    ELSE SplitFrom(Tail(s), sep, Append(cur, Head(s)))

Split(s, sep) == SplitFrom(s, sep, <<>>)

\* Segment-wise containment: root is p or an ancestor of p.
IsAncestorOrSelf(root, p) ==
    Len(root) <= Len(p) /\ SubSeq(p, 1, Len(root)) = root

RECURSIVE SeqsUpTo(_, _)
\* All sequences over S of length at most n.
SeqsUpTo(S, n) ==
    IF n = 0 THEN {<<>>}
    ELSE LET shorter == SeqsUpTo(S, n - 1)
         IN  shorter \cup {Append(s, x) : s \in shorter, x \in S}


-----------------------------------------------------------------------------
(* The file system: real directories and symbolic links *)

\* The real (non-link) directories: /, /ws, /ws/a and /ws-e.
RealNodes == {<<>>, <<WS>>, <<WS, SUB>>, <<WSEVIL>>}

NoLinks == [x \in {} |-> <<>>]

\* The symbolic links a run may start with.  Targets are real directories.
LinkConfigs ==
    { NoLinks,
      (<<WS, LNK>> :> <<WSEVIL>>),
      (<<WS, LNK>> :> <<WS, SUB>>),
      (<<LNK>> :> <<WS>>),
      (<<LNK>> :> <<WS>>) @@ (<<WS, LNK>> :> <<WSEVIL>>),
      (<<WSEVIL, LNK>> :> <<WS, SUB>>) }

RECURSIVE RealWalkFrom(_, _, _)
\* Follow p segment by segment, replacing a link by its target.
RealWalkFrom(lnks, cur, rest) ==
    IF rest = <<>> THEN cur
    ELSE LET nxt == Append(cur, Head(rest))
         IN  RealWalkFrom(lnks,
                          IF nxt \in DOMAIN lnks THEN lnks[nxt] ELSE nxt,
                          Tail(rest))

RealWalk(lnks, p) == RealWalkFrom(lnks, <<>>, p)

\* fs.existsSync(p): follows links.
existsSync(lnks, p) == RealWalk(lnks, p) \in RealNodes

\* fs.realpathSync(p) inside try/catch with the path itself as fallback.
realpathOrSelf(lnks, p) == IF existsSync(lnks, p) THEN RealWalk(lnks, p) ELSE p

-----------------------------------------------------------------------------
(* utils/workspace: containment *)

RECURSIVE NormalizeFrom(_, _)
\* path.normalize of an absolute path: "." dropped, ".." pops, never above "/".
NormalizeFrom(stack, rest) ==
    IF rest = <<>> THEN stack
    ELSE LET s == Head(rest)
         IN  IF s = DOT THEN NormalizeFrom(stack, Tail(rest))
             ELSE IF s = DOTDOT
                  THEN NormalizeFrom(IF stack = <<>> THEN <<>>
                                     ELSE SubSeq(stack, 1, Len(stack) - 1),
                                     Tail(rest))
             ELSE NormalizeFrom(Append(stack, s), Tail(rest))

Normalize(segs) == NormalizeFrom(<<>>, segs)

\* path.normalize(rootNorm + path.sep): "/ws/" for /ws, "/" for the root "/".
WithSep(p) == IF p = <<>> THEN <<SEP>> ELSE AbsStr(p) \o <<SEP>>

\* Faulty variant: the path itself is taken, existing or not.
findNearestExistingAncestor_Self(lnks, p) == p

RECURSIVE findNearestExistingAncestor(_, _)
findNearestExistingAncestor(lnks, p) ==
    IF existsSync(lnks, p) THEN p
    ELSE IF p = <<>> THEN p
    ELSE findNearestExistingAncestor(lnks, SubSeq(p, 1, Len(p) - 1))

\* getRootReal: the value returned for root under the given cache.
getRootReal(lnks, cache, root) ==
    IF root \in DOMAIN cache THEN cache[root] ELSE realpathOrSelf(lnks, root)

\* getRootReal: the cache after the call.
cacheAfterRootReal(lnks, cache, root) ==
    IF root \in DOMAIN cache THEN cache
    ELSE cache @@ (root :> realpathOrSelf(lnks, root))

\* Faulty variant: the prefix test without the trailing separator.
LexicallyWithin_NoSep(norm, root) == StartsWith(AbsStr(norm), AbsStr(root))

\* isWithinRoot, first half: the literal containment test on strings.
LexicallyWithin(norm, root) ==
    StartsWith(AbsStr(norm), WithSep(root)) \/ AbsStr(norm) = AbsStr(root)

\* isWithinRoot, second half: the nearest existing ancestor's canonical
\* path must lie within the root's canonical form.
CanonicallyWithin(lnks, norm, rootReal) ==
    LET existing == findNearestExistingAncestor(lnks, norm)
        existingReal == realpathOrSelf(lnks, existing)
    IN  StartsWith(AbsStr(existingReal), WithSep(rootReal))
        \/ AbsStr(existingReal) = AbsStr(rootReal)

isWithinRoot(lnks, cache, norm, root) ==
    /\ LexicallyWithin(norm, root)
    /\ CanonicallyWithin(lnks, norm, getRootReal(lnks, cache, root))

\* Faulty variant: the loop keeps going and the last root that passes wins.
RECURSIVE resolveFrom_LastMatch(_, _, _, _, _)
resolveFrom_LastMatch(rts, lnks, cache, norm, i) ==
    IF i > Len(rts)
    THEN [ok |-> FALSE, error |-> "path_not_in_workspace", absPath |-> norm,
          root |-> <<>>, cache |-> cache]
    ELSE LET root == rts[i]
             lex == LexicallyWithin(norm, root)
             cache2 == IF lex THEN cacheAfterRootReal(lnks, cache, root)
                       ELSE cache
             later == resolveFrom_LastMatch(rts, lnks, cache2, norm, i + 1)
         IN  IF isWithinRoot(lnks, cache, norm, root) /\ ~later.ok
             THEN [ok |-> TRUE, error |-> "none", absPath |-> norm,
                   root |-> root, cache |-> later.cache]
             ELSE later

RECURSIVE resolveFrom(_, _, _, _, _)
\* The loop of resolveWithinWorkspace from root number i on.  The cache is
\* filled for every root whose literal test passes.
resolveFrom(rts, lnks, cache, norm, i) ==
    IF i > Len(rts)
    THEN [ok |-> FALSE, error |-> "path_not_in_workspace", absPath |-> norm,
          root |-> <<>>, cache |-> cache]
    ELSE LET root == rts[i]
             lex == LexicallyWithin(norm, root)
             cache2 == IF lex THEN cacheAfterRootReal(lnks, cache, root)
                       ELSE cache
         IN  IF isWithinRoot(lnks, cache, norm, root)
             THEN [ok |-> TRUE, error |-> "none", absPath |-> norm,
                   root |-> root, cache |-> cache2]
             ELSE resolveFrom(rts, lnks, cache2, norm, i + 1)

\* A caller-supplied path: absolute or relative, a sequence of segments.
absOf(primary, p) == IF p.abs THEN p.segs ELSE Normalize(primary \o p.segs)

resolveWithinWorkspace(rts, lnks, cache, p) ==
    resolveFrom(rts, lnks, cache, Normalize(absOf(rts[1], p)), 1)

-----------------------------------------------------------------------------
(* utils/workspace: relative paths and the sensitivity classifier *)

RECURSIVE CommonLen(_, _)
CommonLen(a, b) ==
    IF a = <<>> \/ b = <<>> \/ Head(a) # Head(b) THEN 0
    ELSE 1 + CommonLen(Tail(a), Tail(b))

\* path.relative(base, p), as segments: ".." for each segment of base left
\* after the common prefix, then the rest of p.
relative(base, p) ==
    LET c == CommonLen(base, p)
    IN  [i \in 1..(Len(base) - c) |-> DOTDOT] \o SubSeq(p, c + 1, Len(p))

\* relativizePosix(p, root): path.relative(root, p) || ".", joined by "/".
relativizePosix(p, root) ==
    LET r == JoinWith(relative(root, p), SEP)
    IN  IF r = <<>> THEN DOT ELSE r

\* path.posix.basename of a string without trailing separators.
posixBasename(s) == LET parts == Split(s, SEP) IN parts[Len(parts)]

isSensitivePath(relPosix) ==
    IF relPosix = DOT THEN FALSE
    ELSE IF \/ relPosix = GIT \/ StartsWith(relPosix, GIT \o <<SEP>>)
            \/ relPosix = HG  \/ StartsWith(relPosix, HG \o <<SEP>>)
            \/ relPosix = SVN \/ StartsWith(relPosix, SVN \o <<SEP>>)
         THEN TRUE
         ELSE posixBasename(relPosix) = ENV

-----------------------------------------------------------------------------
(* utils/path-policy *)

\* An optional boolean of the request: "unset", "true" or "false".
OptBool == {"unset", "true", "false"}

\* CommonFileFilteringOptions; ffo is file_filtering_options.respect_git_ignore.
FilteringOptions == [no_ignore : OptBool, respect_git_ignore : OptBool, ffo : OptBool]

\* Faulty variant: the nested boolean is consulted before the explicit one.
resolveRespectGitIgnore_NestedFirst(options, outsideWorkspace) ==
    IF options.no_ignore = "true" THEN FALSE
    ELSE IF options.ffo # "unset" THEN options.ffo = "true"
    ELSE IF options.respect_git_ignore # "unset"
         THEN options.respect_git_ignore = "true"
    ELSE ~outsideWorkspace

resolveRespectGitIgnore(options, outsideWorkspace) ==
    IF options.no_ignore = "true" THEN FALSE
    ELSE IF options.respect_git_ignore # "unset"
         THEN options.respect_git_ignore = "true"
    ELSE IF options.ffo # "unset" THEN options.ffo = "true"
    ELSE ~outsideWorkspace

\* The names listed in the ignore files of a root (bare-name patterns).
IgnorePatternsOf(root) == {CACHE, ENV}

\* buildIgnoreFilter: the compiled matcher of a root.
buildIgnoreFilter(root) == [present |-> TRUE, names |-> IgnorePatternsOf(root)]

\* Ignore.ignores(relPosix) for bare-name patterns: a segment of the path
\* bears an ignored name.
ignores(filter, relPosix) ==
    LET parts == Split(relPosix, SEP)
    IN  \E i \in 1..Len(parts) : parts[i] \in filter.names

getPolicyContextForRoot(root, respectGitIgnore) ==
    [respectGitIgnore |-> respectGitIgnore,
     ignoreFilter |-> IF respectGitIgnore THEN buildIgnoreFilter(root)
                      ELSE [present |-> FALSE, names |-> {}]]

\* Faulty variant: the ignore matcher is consulted before the sensitivity test.
getPathPolicyBlockReason_IgnoreFirst(relPosix, policy) ==
    IF relPosix = DOT \/ relPosix = <<>> THEN "none"
    ELSE IF /\ policy.respectGitIgnore
            /\ policy.ignoreFilter.present
            /\ \E i \in 1..Len(Split(relPosix, SEP)) :
                 Split(relPosix, SEP)[i] \in policy.ignoreFilter.names
         THEN "ignored"
    ELSE IF isSensitivePath(relPosix) THEN "sensitive"
    ELSE "none"

getPathPolicyBlockReason(relPosix, policy) ==
    IF relPosix = DOT \/ relPosix = <<>> THEN "none"
    ELSE IF isSensitivePath(relPosix) THEN "sensitive"
    ELSE IF /\ policy.respectGitIgnore
            /\ policy.ignoreFilter.present
            /\ ignores(policy.ignoreFilter, relPosix)
         THEN "ignored"
    ELSE "none"

blockedPathErrorType(reason) ==
    IF reason = "sensitive" THEN "sensitive_path" ELSE "path_ignored_by_policy"

resolvePathAccess(rts, lnks, cache, pathInput, filtering) ==
    LET resolved == resolveWithinWorkspace(rts, lnks, cache, pathInput)
        relPosix == relativizePosix(resolved.absPath, resolved.root)
        \* resolved.outsideWorkspace is never set by resolveWithinWorkspace
        respectGitIgnore == resolveRespectGitIgnore(filtering, FALSE)
        policy == getPolicyContextForRoot(resolved.root, respectGitIgnore)
        blocked == getPathPolicyBlockReason(relPosix, policy)
    IN  IF ~resolved.ok
        THEN [ok |-> FALSE, error |-> resolved.error, absPath |-> resolved.absPath,
              root |-> <<>>, relPosix |-> <<>>, respectGitIgnore |-> FALSE,
              cache |-> resolved.cache]
        ELSE IF blocked # "none"
        THEN [ok |-> FALSE, error |-> blockedPathErrorType(blocked),
              absPath |-> resolved.absPath, root |-> resolved.root,
              relPosix |-> relPosix, respectGitIgnore |-> respectGitIgnore,
              cache |-> resolved.cache]
        ELSE [ok |-> TRUE, error |-> "none", absPath |-> resolved.absPath,
              root |-> resolved.root, relPosix |-> relPosix,
              respectGitIgnore |-> respectGitIgnore, cache |-> resolved.cache]

-----------------------------------------------------------------------------
(* The policy gate of the path-based tools *)

\* dir_path / file_path "" (relative, no segment).
IsEmptyPath(p) == ~p.abs /\ p.segs = <<>>

PassedGate(cache) ==
    [ok |-> TRUE, error |-> "none", absPath |-> <<>>, root |-> <<>>,
     relPosix |-> <<>>, respectGitIgnore |-> FALSE, cache |-> cache]

\* Faulty variant: file_filtering_options is not handed to the gate.
writeFileTool_DropsNested(rts, lnks, cache, p, opts) ==
    resolvePathAccess(rts, lnks, cache, p, [opts EXCEPT !.ffo = "unset"])

\* write_file
writeFileTool(rts, lnks, cache, p, opts) ==
    resolvePathAccess(rts, lnks, cache, p, opts)

\* glob: the gate applies when dir_path is given (a non-empty string).
globTool(rts, lnks, cache, p, opts) ==
    IF IsEmptyPath(p) THEN PassedGate(cache)
    ELSE resolvePathAccess(rts, lnks, cache, p, opts)

\* search_file_content
searchFileContentGate(rts, lnks, cache, p, opts) ==
    resolvePathAccess(rts, lnks, cache, p, opts)

\* read_file
readFileTool(rts, lnks, cache, p, opts) ==
    resolvePathAccess(rts, lnks, cache, p, opts)

\* replace
editTool(rts, lnks, cache, p, opts) ==
    resolvePathAccess(rts, lnks, cache, p, opts)

\* list_directory
lsTool(rts, lnks, cache, p, opts) ==
    resolvePathAccess(rts, lnks, cache, p, opts)

-----------------------------------------------------------------------------
(* The content search: corpus, collection and rendering *)

\* Number of files under the search path.
NumFiles == 2

\* Highest line number of a file.
MaxLine == 2

\* Largest max_matches of a request.
MaxMatchesArg == 2

DEFAULT_CONCURRENCY == 8

DEFAULT_MAX_OUTPUT_BYTES == 262144

\* File k is the file whose path, relative to the search directory and to the
\* root, is the k-th letter: "a", "b", ...
Files == 1..NumFiles

LineNumbers == 1..MaxLine

Letters == <<"a", "b", "c", "d", "e", "f", "g", "h">>

filePathOf(f) == <<Letters[f]>>

\* Every matching line reads "TODO".
LineText == <<"T", "O", "D", "O">>

DigitChars == <<"0", "1", "2", "3", "4", "5", "6", "7", "8", "9">>

RECURSIVE toString(_)
\* Number.prototype.toString of a natural number.
toString(n) ==
    IF n < 10 THEN <<DigitChars[n + 1]>>
    ELSE toString(n \div 10) \o <<DigitChars[(n % 10) + 1]>>

\* Buffer.byteLength of an ASCII string.
byteLength(s) == Len(s)

GrepMatch(f, l) == [filePath |-> f, lineNumber |-> l]

RECURSIVE linesOf(_, _)
\* The matching line numbers of file f from line i on, ascending: the order in
\* which a scan of the file, or the subprocess, meets them.
linesOf(f, i) ==
    IF i > MaxLine THEN <<>>
    ELSE (IF i \in corpus[f] THEN <<i>> ELSE <<>>) \o linesOf(f, i + 1)

matchesOfFile(f) ==
    LET ls == linesOf(f, 1) IN [j \in 1..Len(ls) |-> GrepMatch(f, ls[j])]

RECURSIVE rgOutputFrom(_, _)
rgOutputFrom(order, i) ==
    IF i > Len(order) THEN <<>>
    ELSE matchesOfFile(order[i]) \o rgOutputFrom(order, i + 1)

\* The match events ripgrep writes: file after file in the order its threads
\* finish them, the lines of one file ascending.
rgOutput(order) == rgOutputFrom(order, 1)

\* getPathPolicyBlockReason(relToRoot, policy) is not null / isSensitivePath or
\* ig.ignores hold for the file.
isBlocked(f) == f \in blockedFiles

\* a.localeCompare(b) of two paths: one-letter lower-case paths compare as
\* their letters do.
localeCompare(a, b) == IF a < b THEN -1 ELSE IF a > b THEN 1 ELSE 0

\* The comparators handed to Array.prototype.sort.
compareWith(cmp, a, b) ==
    CASE cmp = "file_then_line" ->
           LET fileCmp == localeCompare(a.filePath, b.filePath)
           IN  IF fileCmp # 0 THEN fileCmp ELSE a.lineNumber - b.lineNumber
      [] cmp = "line" -> a.lineNumber - b.lineNumber
      [] cmp = "path" -> localeCompare(a, b)

RECURSIVE insertSorted(_, _, _)
insertSorted(cmp, sorted, x) ==
    IF sorted = <<>> THEN <<x>>
    ELSE IF compareWith(cmp, x, Head(sorted)) < 0 THEN <<x>> \o sorted
    ELSE <<Head(sorted)>> \o insertSorted(cmp, Tail(sorted), x)

RECURSIVE sortWith(_, _)
\* Array.prototype.sort (stable) under the comparator cmp.
sortWith(cmp, s) ==
    IF s = <<>> THEN <<>>
    ELSE insertSorted(cmp, sortWith(cmp, SubSeq(s, 1, Len(s) - 1)), s[Len(s)])

\* `${match.filePath}:${match.lineNumber}:${match.line.trim()}`
matchLine(m) ==
    filePathOf(m.filePath) \o <<":">> \o toString(m.lineNumber) \o <<":">> \o LineText

\* `matches=${sorted.length}`
headerLine(n) == <<"m", "a", "t", "c", "h", "e", "s", "=">> \o toString(n)

RECURSIVE renderLines(_, _, _)
\* The loop of formatCompactMatchesOutput: lines are added while the byte
\* total stays within maxOutputBytes.
renderLines(sorted, bytes, maxOutputBytes) ==
    IF sorted = <<>> THEN [lines |-> <<>>, outputTruncated |-> FALSE]
    ELSE LET lineBytes == byteLength(matchLine(Head(sorted)) \o <<"\n">>)
         IN  IF bytes + lineBytes > maxOutputBytes
             THEN [lines |-> <<>>, outputTruncated |-> TRUE]
             ELSE LET rest == renderLines(Tail(sorted), bytes + lineBytes,
                                          maxOutputBytes)
                  IN  [lines |-> <<Head(sorted)>> \o rest.lines,
                       outputTruncated |-> rest.outputTruncated]

\* Faulty variant: the bytes of the header line are not counted.
formatCompactMatchesOutput_HeaderFree(ms, maxMatches, matchTruncated, maxOutputBytes) ==
    LET sorted == sortWith("file_then_line", ms)
        body == renderLines(sorted, 0, maxOutputBytes)
    IN  [count |-> Len(sorted), lines |-> body.lines,
         matchTruncated |-> matchTruncated,
         outputTruncated |-> body.outputTruncated]

formatCompactMatchesOutput(ms, maxMatches, matchTruncated, maxOutputBytes) ==
    LET sorted == sortWith("file_then_line", ms)
        body == renderLines(sorted, byteLength(headerLine(Len(sorted)) \o <<"\n">>),
                            maxOutputBytes)
    IN  [count |-> Len(sorted), lines |-> body.lines,
         matchTruncated |-> matchTruncated,
         outputTruncated |-> body.outputTruncated]

\* What a search hands back: the matches of the text in the order of their
\* lines, and those of the structured list where the tool has one.
SearchResult(outcome, text, structured, hasStructured, count, byCount, byBytes) ==
    [kind |-> "search_result", outcome |-> outcome, text |-> text,
     structured |-> structured, hasStructured |-> hasStructured,
     count |-> count, truncated |-> byCount, outputTruncated |-> byBytes]

\* Faulty variant: the cap is not looked at before the match is pushed.
handleLine_NoGuard(ms, trunc, ev, maxMatches) ==
    LET pushed == Append(ms, ev)
    IN  IF Len(pushed) >= maxMatches
        THEN [matches |-> pushed, truncated |-> TRUE, kill |-> TRUE]
        ELSE [matches |-> pushed, truncated |-> trunc, kill |-> FALSE]

\* parseRipgrepJson.handleLine for a match event.
handleLine(ms, trunc, ev, maxMatches) ==
    IF trunc \/ Len(ms) >= maxMatches
    THEN [matches |-> ms, truncated |-> trunc, kill |-> FALSE]
    ELSE LET pushed == Append(ms, ev)
         IN  IF Len(pushed) >= maxMatches
             THEN [matches |-> pushed, truncated |-> TRUE, kill |-> TRUE]
             ELSE [matches |-> pushed, truncated |-> trunc, kill |-> FALSE]

\* The end of parseRipgrepJson and the rest of searchFileContentTool, and the
\* rest of searchFileContentTool after fallbackSearch: found is parsed.matches
\* or the result of fallbackSearch.
searchFileContentResult(found, wasTruncated, maxMatches, maxOutputBytes) ==
    LET allowed == SelectSeq(found, LAMBDA m : ~isBlocked(m.filePath))
    IN  IF Len(allowed) = 0
        THEN SearchResult("no_matches", <<>>, <<>>, FALSE, 0, FALSE, FALSE)
        ELSE LET out == formatCompactMatchesOutput(allowed, maxMatches,
                                                   wasTruncated, maxOutputBytes)
             IN  SearchResult("matches", out.lines, <<>>, FALSE, out.count,
                              out.matchTruncated, out.outputTruncated)

RECURSIVE pushUpTo(_, _, _)
pushUpTo(results, found, maxMatches) ==
    IF found = <<>> THEN results
    ELSE LET pushed == Append(results, Head(found))
         IN  IF Len(pushed) >= maxMatches THEN pushed
             ELSE pushUpTo(pushed, Tail(found), maxMatches)

\* One round of fallbackSearch's loop over entries: a blocked file is passed
\* over, the matching lines of another are pushed until maxMatches is reached.
fallbackSearchFile(results, f, maxMatches) ==
    IF isBlocked(f) THEN results
    ELSE pushUpTo(results, matchesOfFile(f), maxMatches)

\* grepTool.pushMatch (output_mode "full").
pushMatch(acc, m, maxMatches, sigAborted) ==
    IF acc.stop \/ sigAborted THEN acc
    ELSE IF acc.matchCount >= maxMatches
    THEN [acc EXCEPT !.truncated = TRUE, !.stop = TRUE]
    ELSE LET pushed == [acc EXCEPT !.matchCount = @ + 1,
                                   !.matches = Append(@, m)]
         IN  IF pushed.matchCount >= maxMatches
             THEN [pushed EXCEPT !.truncated = TRUE, !.stop = TRUE]
             ELSE pushed

RECURSIVE processFileLines(_, _, _, _)
\* The line loop of grepTool.processFile over the matching lines of a file.
processFileLines(acc, found, maxMatches, sigAborted) ==
    IF found = <<>> \/ acc.stop \/ sigAborted THEN acc
    ELSE LET next == pushMatch(acc, Head(found), maxMatches, sigAborted)
         IN  IF next.stop THEN next
             ELSE processFileLines(next, Tail(found), maxMatches, sigAborted)

workerCountOf(files) ==
    IF DEFAULT_CONCURRENCY < Len(files) THEN DEFAULT_CONCURRENCY ELSE Len(files)

\* Faulty variant: the index is read but the counter is not advanced.
claimNext_NoAdvance(files, idx, halted) ==
    IF halted THEN [nextFileIndex |-> idx, file |-> 0]
    ELSE IF idx >= Len(files) THEN [nextFileIndex |-> idx, file |-> 0]
    ELSE IF isBlocked(files[idx + 1]) THEN [nextFileIndex |-> idx, file |-> 0]
    ELSE [nextFileIndex |-> idx, file |-> files[idx + 1]]

RECURSIVE claimNext(_, _, _)
\* A worker of grepTool from the top of its loop, up to its next wait for the
\* file system: it takes indexes until a file is to be read (file # 0) or it
\* returns (file = 0).  processFile returns at once for a blocked file.
claimNext(files, idx, halted) ==
    IF halted THEN [nextFileIndex |-> idx, file |-> 0]
    ELSE IF idx >= Len(files) THEN [nextFileIndex |-> idx + 1, file |-> 0]
    ELSE IF isBlocked(files[idx + 1]) THEN claimNext(files, idx + 1, halted)
    ELSE [nextFileIndex |-> idx + 1, file |-> files[idx + 1]]

WorkerAt(c) ==
    IF c.file = 0 THEN [pc |-> "done", file |-> 0] ELSE [pc |-> "stat", file |-> c.file]

RECURSIVE startWorkers(_, _, _)
\* Array.from({ length: workerCount }, async () => ...): every worker runs
\* to its first wait.
startWorkers(files, w, idx) ==
    IF w > workerCountOf(files) THEN [workers |-> <<>>, nextFileIndex |-> idx]
    ELSE LET c == claimNext(files, idx, FALSE)
             rest == startWorkers(files, w + 1, c.nextFileIndex)
         IN  [workers |-> <<WorkerAt(c)>> \o rest.workers,
              nextFileIndex |-> rest.nextFileIndex]

RECURSIVE groupKeys(_, _)
\* The keys of the Map the matches are grouped in, in insertion order.
groupKeys(ms, seen) ==
    IF ms = <<>> THEN <<>>
    ELSE IF Head(ms).filePath \in seen THEN groupKeys(Tail(ms), seen)
    ELSE <<Head(ms).filePath>> \o groupKeys(Tail(ms), seen \cup {Head(ms).filePath})

\* One group, sorted by line number.
groupOf(ms, f) == sortWith("line", SelectSeq(ms, LAMBDA m : m.filePath = f))

RECURSIVE groupedText(_, _)
groupedText(ms, keys) ==
    IF keys = <<>> THEN <<>>
    ELSE groupOf(ms, Head(keys)) \o groupedText(ms, Tail(keys))

\* The end of grepTool (output_mode "full").
grepToolResult(ms, count, trunc) ==
    IF count = 0
    THEN SearchResult("no_matches", <<>>, <<>>, TRUE, 0, FALSE, FALSE)
    ELSE SearchResult("matches",
                      groupedText(ms, sortWith("path", groupKeys(ms, {}))),
                      ms, TRUE, count, trunc, FALSE)

\* ripgrepTool.handleJsonLine for a match event.
handleJsonLine(acc, ev, maxMatches) ==
    IF acc.truncated \/ acc.matchCount >= maxMatches \/ isBlocked(ev.filePath)
    THEN [acc EXCEPT !.kill = FALSE]
    ELSE LET pushed == [acc EXCEPT !.matchCount = @ + 1,
                                   !.matches = Append(@, ev), !.kill = FALSE]
         IN  IF pushed.matchCount >= maxMatches
             THEN [pushed EXCEPT !.truncated = TRUE, !.kill = TRUE]
             ELSE pushed

\* The end of ripgrepTool (output_mode "full").
ripgrepToolResult(ms, count, trunc, wasAborted) ==
    IF wasAborted
    THEN SearchResult("aborted", <<>>, <<>>, TRUE, 0, FALSE, FALSE)
    ELSE IF count = 0
    THEN SearchResult("no_matches", <<>>, <<>>, TRUE, 0, FALSE, FALSE)
    ELSE SearchResult("matches", groupedText(ms, groupKeys(ms, {})),
                      ms, TRUE, count, trunc, FALSE)

\* let pending = "": nothing read yet.
ParserAtRest == [pending |-> <<>>, chunks |-> <<>>]

\* The characters of the subprocess's output: "a" and "b" stand for the
\* JSON text of two match events, "e" for that of another event.
StreamChars == {"a", "b", "e", "\r", "\n"}

RECURSIVE splitCrLf(_, _)
\* pending.split(/\r?\n/), with cur the piece being read.
splitCrLf(s, cur) ==
    IF s = <<>> THEN <<cur>>
    ELSE IF Head(s) = "\n" THEN <<cur>> \o splitCrLf(Tail(s), <<>>)
    ELSE IF Head(s) = "\r" /\ Len(s) >= 2 /\ s[2] = "\n"
    THEN <<cur>> \o splitCrLf(Tail(Tail(s)), <<>>)
    ELSE splitCrLf(Tail(s), cur \o <<Head(s)>>)

RECURSIVE trim(_)
\* String.prototype.trim, and the white space JSON.parse allows around a
\* value.
trim(s) ==
    IF s = <<>> THEN s
    ELSE IF Head(s) \in {"\r", "\n"} THEN trim(Tail(s))
    ELSE IF s[Len(s)] \in {"\r", "\n"} THEN trim(SubSeq(s, 1, Len(s) - 1))
    ELSE s

\* JSON.parse(line) and the test json.type === "match": the match of the
\* event, or <<>> for another event and for text that is not one JSON value.
matchEventOf(line) ==
    CASE trim(line) = <<"a">> -> <<GrepMatch(1, 1)>>
      [] trim(line) = <<"b">> -> <<GrepMatch(2, 1)>>
      [] OTHER -> <<>>

\* parseRipgrepJson.handleLine on a line of text.
handleTextLine(acc, line, maxMatches) ==
    IF trim(line) = <<>> \/ matchEventOf(line) = <<>>
    THEN [acc EXCEPT !.kill = FALSE]
    ELSE LET r == handleLine(acc.matches, acc.truncated,
                             matchEventOf(line)[1], maxMatches)
         IN  [matches |-> r.matches, truncated |-> r.truncated,
              kill |-> r.kill]

RECURSIVE handleLines(_, _, _)
\* for (const line of lines) handleLine(line); kill notes proc.kill().
handleLines(acc, lines, maxMatches) ==
    IF lines = <<>> THEN acc
    ELSE LET r == handleTextLine(acc, Head(lines), maxMatches)
         IN  handleLines([r EXCEPT !.kill = acc.kill \/ r.kill], Tail(lines),
                         maxMatches)

\* Faulty variant: what is left of a chunk is parsed at once, not kept.
onData_NoCarry(acc, pend, chunk, maxMatches) ==
    LET done == handleLines(acc, splitCrLf(chunk, <<>>), maxMatches)
    IN  [matches |-> done.matches, truncated |-> done.truncated,
         kill |-> done.kill, pending |-> <<>>]

\* proc.stdout.on("data"): the chunk is appended to pending, the complete
\* lines are handled and the last piece is kept.
onData(acc, pend, chunk, maxMatches) ==
    LET lines == splitCrLf(pend \o chunk, <<>>)
        done == handleLines(acc, SubSeq(lines, 1, Len(lines) - 1), maxMatches)
    IN  [matches |-> done.matches, truncated |-> done.truncated,
         kill |-> done.kill, pending |-> lines[Len(lines)]]

\* proc.on("exit"): what is pending is handled as a last line.
onExit(acc, pend, maxMatches) ==
    IF trim(pend) # <<>> THEN handleTextLine(acc, pend, maxMatches)
    ELSE [acc EXCEPT !.kill = FALSE]

\* The locals of a search before it starts and after it has returned.
LocalsAtRest ==
    /\ proc = "none"
    /\ stdout = <<>>
    /\ entries = <<>>
    /\ entryIndex = 0
    /\ matches = <<>>
    /\ matchCount = 0
    /\ truncated = FALSE
    /\ aborted = FALSE
    /\ stop = FALSE
    /\ nextFileIndex = 0
    /\ workers = <<>>

-----------------------------------------------------------------------------
(* utils/ignore: the ignore files and the cached matcher *)

\* What prefixGitIgnorePattern returns for a line it drops.
NullPattern == <<"null">>

\* Faulty variant: the pattern of a nested file is added as it stands.
prefixGitIgnorePattern_Verbatim(relDirPosix, line) ==
    IF \A i \in DOMAIN line : line[i] = " " THEN NullPattern ELSE line

\* prefixGitIgnorePattern(relDirPosix, line)
prefixGitIgnorePattern(relDirPosix, line) ==
    LET nonSpace == {i \in DOMAIN line : line[i] # " "}
        trimmedLeft == SubSeq(line, CHOOSE i \in nonSpace :
                                        \A j \in nonSpace : i <= j, Len(line))
        isNegated == line[1] = "!"
        raw == IF isNegated THEN Tail(line) ELSE line
        isAnchored == raw # <<>> /\ raw[1] = SEP
        body == IF isAnchored THEN Tail(raw) ELSE raw
        bodyNoTrailingSlash ==
            IF body # <<>> /\ body[Len(body)] = SEP
            THEN SubSeq(body, 1, Len(body) - 1) ELSE body
        hasPathSeparator ==
            \E i \in DOMAIN bodyNoTrailingSlash : bodyNoTrailingSlash[i] = SEP
        prefixed ==
            IF isAnchored THEN relDirPosix \o <<SEP>> \o body
            ELSE IF hasPathSeparator THEN relDirPosix \o <<SEP>> \o body
            ELSE relDirPosix \o <<SEP, "*", "*", SEP>> \o body
    IN  IF nonSpace = {} THEN NullPattern
        ELSE IF trimmedLeft[1] = "#" THEN NullPattern
        ELSE IF relDirPosix = <<>> THEN line
        ELSE IF isNegated THEN <<"!">> \o prefixed ELSE prefixed

RECURSIVE globMatch(_, _)
\* Ignore.ignores for a pattern of names and "**" that holds a separator
\* (so is anchored at the root), both split in segments: "**" stands for any
\* run of directories, and what lies under a matched path is matched.
globMatch(pat, segs) ==
    IF pat = <<>> THEN TRUE
    ELSE IF Head(pat) = <<"*", "*">>
         THEN IF Tail(pat) = <<>> THEN segs # <<>>
              ELSE \/ globMatch(Tail(pat), segs)
                   \/ segs # <<>> /\ globMatch(pat, Tail(segs))
    ELSE /\ segs # <<>>
         /\ Head(pat) = Head(segs)
         /\ globMatch(Tail(pat), Tail(segs))

\* The ignore files a run may see, numbered in the order localeCompare gives
\* their absolute paths:
\*   1  /home/.gitignore            (user-global)
\*   2  /ws-e/.gitignore
\*   3  /ws/.git/info/exclude
\*   4  /ws/.gitignore
IgnoreFileTable ==
    << [kind |-> "global",    dir |-> <<>>],
       [kind |-> "gitignore", dir |-> <<WSEVIL>>],
       [kind |-> "exclude",   dir |-> <<WS>>],
       [kind |-> "gitignore", dir |-> <<WS>>] >>

IgnoreFileIds == DOMAIN IgnoreFileTable

\* The files of a kind that exist, as fast-glob under root or the loop
\* of fs.stat finds them.
existingOfKind(files, kind, root) ==
    SelectSeq([f \in IgnoreFileIds |-> f],
              LAMBDA f : /\ files[f] > 0
                         /\ IgnoreFileTable[f].kind = kind
                         /\ CASE kind = "gitignore" ->
                                   IsAncestorOrSelf(root, IgnoreFileTable[f].dir)
                              [] kind = "exclude" -> IgnoreFileTable[f].dir = root
                              [] OTHER -> TRUE)

\* listIgnoreFiles(root): the .gitignore files under root, then
\* .git/info/exclude, then the global files; sorted by path.
listIgnoreFiles(files, root) ==
    sortWith("path",
             existingOfKind(files, "gitignore", root)
             \o existingOfKind(files, "exclude", root)
             \o existingOfKind(files, "global", root))

\* Faulty variant: the key holds the paths without the modification times.
computeIgnoreKey_PathsOnly(files, list) ==
    [i \in DOMAIN list |-> <<list[i], 0>>]

\* computeIgnoreKey(files): `${file}:${st.mtimeMs}` of each file, sorted.
computeIgnoreKey(files, list) ==
    [i \in DOMAIN list |-> <<list[i], files[list[i]]>>]

\* The ignore files that contribute to the matcher of a root: the .gitignore
\* files at or under it, its .git/info/exclude and the global files.
ContributingFiles(files, root) ==
    {f \in IgnoreFileIds :
        /\ files[f] > 0
        /\ \/ IgnoreFileTable[f].kind = "global"
           \/ IgnoreFileTable[f].kind = "gitignore"
                /\ IsAncestorOrSelf(root, IgnoreFileTable[f].dir)
           \/ IgnoreFileTable[f].kind = "exclude" /\ IgnoreFileTable[f].dir = root}

\* The fingerprint of a root: the path and modification time of every
\* contributing file.
Fingerprint(root) ==
    {<<f, ignoreFiles[f]>> : f \in ContributingFiles(ignoreFiles, root)}

\* No matcher compiled yet.
IgnoreAtRest ==
    /\ clock = 0
    /\ IGNORE_CACHE = Idle
    /\ matchersBuilt = 0
    /\ compiled = Idle
    /\ prevCompile = Idle
    /\ staleBelow = 0

\* No search has asked for the binary yet.
RgAtRest ==
    /\ RG_ON_PATH = "null"
    /\ searches = [s \in 1..MaxConcurrent |-> [pc |-> "idle", rgCmd |-> "none"]]
    /\ rgLog = [started |-> 0, probes |-> 0, downloads |-> 0,
                failed |-> FALSE, afterFailure |-> FALSE]

LaterAtRest ==
    /\ lastSearch = Idle
    /\ ignoreFiles = [f \in IgnoreFileIds |-> 0]
    /\ IgnoreAtRest
    /\ rgEnv = [onPath |-> TRUE, local |-> FALSE]
    /\ RgAtRest
    /\ parser = ParserAtRest

NoSearch ==
    /\ corpus = [f \in Files |-> {}]
    /\ blockedFiles = {}
    /\ signalAborted = FALSE
    /\ LocalsAtRest

-----------------------------------------------------------------------------
(* Inputs *)

NoOpts == [no_ignore |-> "unset", respect_git_ignore |-> "unset", ffo |-> "unset"]

PathNames == {WS, WSEVIL, SUB, LNK, DOTDOT}

PathInputs == [abs : BOOLEAN, segs : SeqsUpTo(PathNames, MaxLen)]

ToolPathNames == {WS, SUB, GIT, ENV, CACHE, DOTDOT}

ToolPathInputs == [abs : BOOLEAN, segs : SeqsUpTo(ToolPathNames, MaxLen)]

RelNames == {SUB, GIT, HG, SVN, ENV, CACHE, GITHUB}

\* Root-relative POSIX paths: "." and the non-empty joined sequences.
RelInputs ==
    {DOT} \cup {JoinWith(segs, SEP) : segs \in SeqsUpTo(RelNames, MaxLen) \ {<<>>}}

\* The root lists a process may be started with or be given.
RootConfigs ==
    { <<<<WS>>>>,
      <<<<WS, SUB>>, <<WS>>>>,
      <<<<WS>>, <<WS, SUB>>>>,
      <<<<LNK>>>>,
      <<<<WS>>, <<WSEVIL>>>>,
      <<<<WS>>, <<WS>>>> }

\* initWorkspaceRoots: the primary root and the extras, duplicates dropped.
InitialRootConfigs ==
    {list \in RootConfigs :
        \A i, j \in 1..Len(list) : list[i] = list[j] => i = j}

-----------------------------------------------------------------------------
(* utils/mcp-roots *)

\* The URIs a client may send: file URIs of /ws, /ws/a and /ws/a/.. , a URI
\* of another scheme and a string that is no URI.
McpUris ==
    { [scheme |-> "file", path |-> <<WS>>],
      [scheme |-> "file", path |-> <<WS, SUB>>],
      [scheme |-> "file", path |-> <<WS, SUB, DOTDOT>>],
      [scheme |-> "https", path |-> <<>>],
      [scheme |-> "none", path |-> <<>>] }

McpRootLists == SeqsUpTo(McpUris, MaxUris)

\* parseFileUri(uri): the resolved path of a file URI, null otherwise.
parseFileUri(uri) ==
    IF uri.scheme = "file" THEN [ok |-> TRUE, path |-> Normalize(uri.path)]
    ELSE [ok |-> FALSE, path |-> <<>>]

RECURSIVE parseMcpRoots_NoDedupe(_, _, _)
\* Faulty variant: every file root is kept, repeated or not.
parseMcpRoots_NoDedupe(list, parsed, invalidUris) ==
    IF list = <<>> THEN [roots |-> parsed, invalidUris |-> invalidUris]
    ELSE LET resolved == parseFileUri(Head(list))
         IN  IF ~resolved.ok
             THEN parseMcpRoots_NoDedupe(Tail(list), parsed,
                                         Append(invalidUris, Head(list)))
             ELSE parseMcpRoots_NoDedupe(Tail(list),
                                         Append(parsed, resolved.path),
                                         invalidUris)

RECURSIVE parseMcpRoots(_, _, _)
\* parseMcpRoots(roots): the loop, from the roots parsed and the URIs
\* rejected so far.
parseMcpRoots(list, parsed, invalidUris) ==
    IF list = <<>> THEN [roots |-> parsed, invalidUris |-> invalidUris]
    ELSE LET resolved == parseFileUri(Head(list))
         IN  IF ~resolved.ok
             THEN parseMcpRoots(Tail(list), parsed,
                                Append(invalidUris, Head(list)))
             ELSE IF \E i \in DOMAIN parsed : parsed[i] = resolved.path
             THEN parseMcpRoots(Tail(list), parsed, invalidUris)
             ELSE parseMcpRoots(Tail(list), Append(parsed, resolved.path),
                                invalidUris)

-----------------------------------------------------------------------------
(* Actions *)

Request(kind, p, opts, outside) ==
    [kind |-> kind, path |-> p, opts |-> opts, outside |-> outside]

\* resolveWithinWorkspace(p)
ResolveCall ==
    /\ call = Idle
    /\ \E p \in PathInputs :
         LET r == resolveWithinWorkspace(roots, links, rootsReal, p)
         IN  /\ call' = Request("resolve", p, NoOpts, FALSE)
             /\ ret' = [kind |-> "resolved", ok |-> r.ok, error |-> r.error,
                        absPath |-> r.absPath, root |-> r.root]
             /\ rootsReal' = r.cache
    /\ UNCHANGED <<roots, links, searchVars>>
    /\ UNCHANGED laterVars

\* The result is handed back; the server is ready for the next request.
Return ==
    /\ call # Idle
    /\ ret # Idle
    /\ call' = Idle
    /\ ret' = Idle
    /\ signalAborted' = FALSE
    /\ UNCHANGED <<roots, rootsReal, links, corpus, blockedFiles, searchLocals>>
    /\ UNCHANGED laterVars

\* What a replacement of the roots leaves alone in utils/ignore, with the
\* note that every matcher compiled so far predates it.
RootsReplaced ==
    /\ compiled' = Idle
    /\ prevCompile' = Idle
    /\ staleBelow' = matchersBuilt
    /\ UNCHANGED <<lastSearch, ignoreFiles, clock, IGNORE_CACHE, matchersBuilt,
                   rgVars, parser>>

\* setWorkspaceRoots(roots): nothing for an empty list; otherwise
\* path.resolve of each entry, caches dropped.
setWorkspaceRootsTo(list) ==
    IF list = <<>>
    THEN UNCHANGED <<roots, rootsReal, laterVars>>
    ELSE /\ roots' = [i \in DOMAIN list |-> Normalize(list[i])]
         /\ rootsReal' = NoLinks
         /\ RootsReplaced

\* setWorkspaceRoots called with a list of directories, or with none.
setWorkspaceRoots ==
    /\ call = Idle
    /\ \E list \in RootConfigs \cup {<<>>} : setWorkspaceRootsTo(list)
    /\ UNCHANGED <<links, call, ret, searchVars>>

\* setWorkspaceRoot(root): the registry holds this one root.
setWorkspaceRoot ==
    /\ call = Idle
    /\ \E list \in RootConfigs :
         /\ roots' = <<Normalize(list[1])>>
         /\ rootsReal' = NoLinks
    /\ RootsReplaced
    /\ UNCHANGED <<links, call, ret, searchVars>>

\* applyMcpRoots(roots): the client's list is parsed and, unless no file
\* root is left, handed to setWorkspaceRoots.
applyMcpRoots ==
    /\ call = Idle
    /\ \E list \in McpRootLists :
         LET parsed == parseMcpRoots(list, <<>>, <<>>)
         IN  /\ call' = [kind |-> "apply_mcp_roots", list |-> list]
             /\ IF parsed.roots = <<>>
                THEN /\ ret' = [kind |-> "mcp_roots", applied |-> FALSE,
                                roots |-> <<>>, invalidUris |-> parsed.invalidUris]
                     /\ UNCHANGED <<roots, rootsReal, laterVars>>
                ELSE /\ ret' = [kind |-> "mcp_roots", applied |-> TRUE,
                                roots |-> parsed.roots,
                                invalidUris |-> parsed.invalidUris]
                     /\ setWorkspaceRootsTo(parsed.roots)
    /\ UNCHANGED <<links, searchVars>>

\* The environment replaces the symbolic links of the file system.
Relink ==
    /\ call = Idle
    /\ \E l \in LinkConfigs : l # links /\ links' = l
    /\ UNCHANGED <<roots, rootsReal, call, ret, searchVars>>
    /\ UNCHANGED laterVars

Init ==
    /\ roots \in InitialRootConfigs
    /\ rootsReal = NoLinks
    /\ links \in LinkConfigs
    /\ call = Idle
    /\ ret = Idle
    /\ NoSearch
    /\ LaterAtRest

Next == ResolveCall \/ Return \/ setWorkspaceRoots \/ Relink

Spec == Init /\ [][Next]_vars

\* The registry under every way of replacing the roots.
NextRoots ==
    \/ applyMcpRoots \/ setWorkspaceRoots \/ setWorkspaceRoot
    \/ ResolveCall \/ Return

SpecRoots == Init /\ [][NextRoots]_vars

-----------------------------------------------------------------------------
(* The policy gate: one request of a path-based tool, or one decision *)

ServeTool(op, p, opts, access) ==
    /\ call' = Request(op, p, opts, FALSE)
    /\ ret' = [kind |-> "gate", ok |-> access.ok, error |-> access.error]
    /\ rootsReal' = access.cache
    /\ UNCHANGED <<roots, links, searchVars>>
    /\ UNCHANGED laterVars

WriteFile ==
    /\ call = Idle
    /\ \E p \in ToolPathInputs, opts \in FilteringOptions :
         ServeTool("write_file", p, opts,
                   writeFileTool(roots, links, rootsReal, p, opts))

Replace ==
    /\ call = Idle
    /\ \E p \in ToolPathInputs, opts \in FilteringOptions :
         ServeTool("replace", p, opts,
                   editTool(roots, links, rootsReal, p, opts))

ReadFile ==
    /\ call = Idle
    /\ \E p \in ToolPathInputs, opts \in FilteringOptions :
         ServeTool("read_file", p, opts,
                   readFileTool(roots, links, rootsReal, p, opts))

ListDirectory ==
    /\ call = Idle
    /\ \E p \in ToolPathInputs, opts \in FilteringOptions :
         ServeTool("list_directory", p, opts,
                   lsTool(roots, links, rootsReal, p, opts))

Glob ==
    /\ call = Idle
    /\ \E p \in ToolPathInputs, opts \in FilteringOptions :
         ServeTool("glob", p, opts,
                   globTool(roots, links, rootsReal, p, opts))

SearchFileContent ==
    /\ call = Idle
    /\ \E p \in ToolPathInputs, opts \in FilteringOptions :
         ServeTool("search_file_content", p, opts,
                   searchFileContentGate(roots, links, rootsReal, p, opts))

\* The decision for a root-relative path of the primary root: the lines of
\* resolvePathAccess after the containment check, for either context default.
Decide ==
    /\ call = Idle
    /\ \E rel \in RelInputs, opts \in FilteringOptions, outside \in BOOLEAN :
         LET respect == resolveRespectGitIgnore(opts, outside)
             policy == getPolicyContextForRoot(roots[1], respect)
         IN  /\ call' = Request("decide", [abs |-> FALSE, segs |-> Split(rel, SEP)],
                                opts, outside)
             /\ ret' = [kind |-> "decision", respect |-> respect,
                        sensitive |-> isSensitivePath(rel),
                        reason |-> getPathPolicyBlockReason(rel, policy)]
    /\ UNCHANGED <<roots, rootsReal, links, searchVars>>
    /\ UNCHANGED laterVars

InitPolicy ==
    /\ roots \in {<<<<WS>>>>, <<<<WS, SUB>>, <<WS>>>>}
    /\ rootsReal = NoLinks
    /\ links = NoLinks
    /\ call = Idle
    /\ ret = Idle
    /\ NoSearch
    /\ LaterAtRest

NextPolicy ==
    \/ WriteFile \/ Replace \/ ReadFile \/ ListDirectory \/ Glob
    \/ SearchFileContent \/ Decide \/ Return

SpecPolicy == InitPolicy /\ [][NextPolicy]_vars

-----------------------------------------------------------------------------
(* The content search: one search at a time, its events interleaved *)

\* The orders in which fast-glob lists the files, or ripgrep finishes them.
Orders == {o \in [1..NumFiles -> Files] : \A i, j \in 1..NumFiles : o[i] = o[j] => i = j}

Corpora == [Files -> SUBSET LineNumbers]

BlockedSets == {b \in SUBSET Files : Cardinality(b) <= 1}

\* max_output_bytes: the default, or room for the header and one line.
OutputByteCaps == {DEFAULT_MAX_OUTPUT_BYTES, 20}

ReturnLocals ==
    /\ proc' = "none"
    /\ stdout' = <<>>
    /\ entries' = <<>>
    /\ entryIndex' = 0
    /\ matches' = <<>>
    /\ matchCount' = 0
    /\ truncated' = FALSE
    /\ aborted' = FALSE
    /\ stop' = FALSE
    /\ nextFileIndex' = 0
    /\ workers' = <<>>

\* searchFileContentTool up to the spawn of ripgrep and the first lines of
\* parseRipgrepJson, or up to the first read of fallbackSearch when no
\* ripgrep is to be had.  The caller's signal may be aborted already: the
\* tool aborts its combined signal and goes on; parseRipgrepJson then finds
\* signal.aborted and runs onAbort at once.  The launch of the subprocess
\* may fail, which the "error" event reports.
SearchStart ==
    /\ call = Idle
    /\ \E n \in 1..MaxMatchesArg, cap \in OutputByteCaps, order \in Orders,
          rgCmd \in BOOLEAN, wasAborted \in BOOLEAN, launched \in BOOLEAN :
         /\ call' = [kind |-> "search_file_content", maxMatches |-> n,
                     maxOutputBytes |-> cap, rgCmd |-> rgCmd]
         /\ signalAborted' = wasAborted
         /\ IF rgCmd
            THEN /\ proc' = IF ~launched THEN "failed"
                            ELSE IF wasAborted THEN "killed" ELSE "running"
                 /\ stdout' = IF launched THEN rgOutput(order) ELSE <<>>
                 /\ aborted' = wasAborted
                 /\ entries' = <<>>
            ELSE /\ launched
                 /\ proc' = "none" /\ stdout' = <<>> /\ entries' = order
                 /\ UNCHANGED aborted
    /\ UNCHANGED <<roots, rootsReal, links, ret, corpus, blockedFiles,
                   entryIndex, matches, matchCount, truncated, stop,
                   nextFileIndex, workers>>
    /\ UNCHANGED laterVars

\* proc.on("error"): the subprocess could not be launched; the promise of
\* parseRipgrepJson resolves with what was collected, which is nothing, and
\* searchFileContentTool runs to its end.
SearchSpawnError ==
    /\ call.kind = "search_file_content" /\ ret = Idle
    /\ proc = "failed"
    /\ LET parsed == IF aborted THEN <<>> ELSE matches
           wasTruncated == truncated \/ Len(parsed) >= call.maxMatches
       IN  ret' = searchFileContentResult(parsed, wasTruncated, call.maxMatches,
                                          call.maxOutputBytes)
    /\ ReturnLocals
    /\ UNCHANGED <<roots, rootsReal, links, call, corpus, blockedFiles, signalAborted>>
    /\ UNCHANGED laterVars

\* proc.stdout.on("data"): the next line reaches handleLine.  A killed
\* subprocess's lines that are already in the pipe may still arrive.
SearchHandleLine ==
    /\ call.kind = "search_file_content" /\ ret = Idle
    /\ proc # "none" /\ stdout # <<>>
    /\ LET r == handleLine(matches, truncated, Head(stdout), call.maxMatches)
       IN  /\ matches' = r.matches
           /\ truncated' = r.truncated
           /\ proc' = IF r.kill THEN "killed" ELSE proc
    /\ stdout' = Tail(stdout)
    /\ UNCHANGED <<pathVars, corpus, blockedFiles, signalAborted, entries, entryIndex,
                   matchCount, aborted, stop, nextFileIndex, workers>>
    /\ UNCHANGED laterVars

\* proc.on("exit"), after the lines the subprocess wrote, or at any time
\* after it was killed; parseRipgrepJson returns and searchFileContentTool
\* runs to its end.
SearchExit ==
    /\ call.kind = "search_file_content" /\ ret = Idle
    /\ proc \in {"running", "killed"}
    /\ stdout = <<>> \/ proc = "killed"
    /\ LET parsed == IF aborted THEN <<>> ELSE matches
           wasTruncated == truncated \/ Len(parsed) >= call.maxMatches
       IN  ret' = searchFileContentResult(parsed, wasTruncated, call.maxMatches,
                                          call.maxOutputBytes)
    /\ ReturnLocals
    /\ UNCHANGED <<roots, rootsReal, links, call, corpus, blockedFiles, signalAborted>>
    /\ UNCHANGED laterVars

\* fallbackSearch has a file to read.
FallbackPending ==
    /\ call.kind = "search_file_content" /\ ret = Idle
    /\ proc = "none" /\ entries # <<>>
    /\ entryIndex < Len(entries)
    /\ Len(matches) < call.maxMatches
    /\ ~signalAborted

\* fallbackSearch: the read of the next entry completes and its lines are
\* scanned.
FallbackScan ==
    /\ FallbackPending
    /\ matches' = fallbackSearchFile(matches, entries[entryIndex + 1], call.maxMatches)
    /\ entryIndex' = entryIndex + 1
    /\ UNCHANGED <<pathVars, corpus, blockedFiles, signalAborted, proc, stdout, entries,
                   matchCount, truncated, aborted, stop, nextFileIndex, workers>>
    /\ UNCHANGED laterVars

\* fallbackSearch returns (entries exhausted, maxMatches reached, or the
\* signal aborted) and searchFileContentTool runs to its end.
FallbackReturn ==
    /\ call.kind = "search_file_content" /\ ret = Idle
    /\ proc = "none" /\ entries # <<>>
    /\ ~FallbackPending
    /\ ret' = searchFileContentResult(matches, Len(matches) >= call.maxMatches,
                                      call.maxMatches, call.maxOutputBytes)
    /\ ReturnLocals
    /\ UNCHANGED <<roots, rootsReal, links, call, corpus, blockedFiles, signalAborted>>
    /\ UNCHANGED laterVars

\* grepTool up to the first wait of every worker.
GrepStart ==
    /\ call = Idle
    /\ \E n \in 1..MaxMatchesArg, order \in Orders :
         LET started == startWorkers(order, 1, 0)
         IN  /\ call' = [kind |-> "grep", maxMatches |-> n]
             /\ entries' = order
             /\ workers' = started.workers
             /\ nextFileIndex' = started.nextFileIndex
    /\ UNCHANGED <<roots, rootsReal, links, ret, corpus, blockedFiles, signalAborted,
                   proc, stdout, entryIndex, matches, matchCount, truncated,
                   aborted, stop>>
    /\ UNCHANGED laterVars

\* processFile: fs.stat of a worker's file completes; the worker reads the file.
GrepStat ==
    /\ call.kind = "grep" /\ ret = Idle
    /\ \E w \in DOMAIN workers :
         /\ workers[w].pc = "stat"
         /\ workers' = [workers EXCEPT ![w].pc = "read"]
    /\ UNCHANGED <<pathVars, corpus, blockedFiles, signalAborted, proc, stdout, entries,
                   entryIndex, matches, matchCount, truncated, aborted, stop,
                   nextFileIndex>>
    /\ UNCHANGED laterVars

\* processFile: fs.readFile of a worker's file completes; the worker scans the
\* lines and goes round its loop to its next wait, or returns.
GrepRead ==
    /\ call.kind = "grep" /\ ret = Idle
    /\ \E w \in DOMAIN workers :
         /\ workers[w].pc = "read"
         /\ LET acc == processFileLines(
                           [matches |-> matches, matchCount |-> matchCount,
                            truncated |-> truncated, stop |-> stop],
                           matchesOfFile(workers[w].file), call.maxMatches,
                           signalAborted)
                c == claimNext(entries, nextFileIndex, acc.stop \/ signalAborted)
            IN  /\ matches' = acc.matches
                /\ matchCount' = acc.matchCount
                /\ truncated' = acc.truncated
                /\ stop' = acc.stop
                /\ nextFileIndex' = c.nextFileIndex
                /\ workers' = [workers EXCEPT ![w] = WorkerAt(c)]
    /\ UNCHANGED <<pathVars, corpus, blockedFiles, signalAborted, proc, stdout, entries,
                   entryIndex, aborted>>
    /\ UNCHANGED laterVars

\* Promise.all(workers) resolves and grepTool runs to its end.
GrepFinish ==
    /\ call.kind = "grep" /\ ret = Idle
    /\ \A w \in DOMAIN workers : workers[w].pc = "done"
    /\ ret' = grepToolResult(matches, matchCount, truncated)
    /\ ReturnLocals
    /\ UNCHANGED <<roots, rootsReal, links, call, corpus, blockedFiles, signalAborted>>
    /\ UNCHANGED laterVars

\* ripgrepTool up to the spawn of ripgrep.
RipgrepStart ==
    /\ call = Idle
    /\ \E n \in 1..MaxMatchesArg, order \in Orders :
         /\ call' = [kind |-> "ripgrep", maxMatches |-> n]
         /\ stdout' = rgOutput(order)
    /\ proc' = "running"
    /\ UNCHANGED <<roots, rootsReal, links, ret, corpus, blockedFiles, signalAborted,
                   entries, entryIndex, matches, matchCount, truncated, aborted,
                   stop, nextFileIndex, workers>>
    /\ UNCHANGED laterVars

\* proc.stdout.on("data") of ripgrepTool: the next line reaches handleJsonLine.
RipgrepHandleLine ==
    /\ call.kind = "ripgrep" /\ ret = Idle
    /\ proc # "none" /\ stdout # <<>>
    /\ LET r == handleJsonLine([matches |-> matches, matchCount |-> matchCount,
                                truncated |-> truncated, kill |-> FALSE],
                               Head(stdout), call.maxMatches)
       IN  /\ matches' = r.matches
           /\ matchCount' = r.matchCount
           /\ truncated' = r.truncated
           /\ proc' = IF r.kill THEN "killed" ELSE proc
    /\ stdout' = Tail(stdout)
    /\ UNCHANGED <<pathVars, corpus, blockedFiles, signalAborted, entries, entryIndex,
                   aborted, stop, nextFileIndex, workers>>
    /\ UNCHANGED laterVars

\* proc.on("exit") of ripgrepTool, and the tool's end.
RipgrepExit ==
    /\ call.kind = "ripgrep" /\ ret = Idle
    /\ proc # "none"
    /\ stdout = <<>> \/ proc = "killed"
    /\ ret' = ripgrepToolResult(matches, matchCount, truncated, aborted)
    /\ ReturnLocals
    /\ UNCHANGED <<roots, rootsReal, links, call, corpus, blockedFiles, signalAborted>>
    /\ UNCHANGED laterVars

\* The search still waits for the subprocess or for the file system.
SearchPending ==
    /\ call # Idle /\ ret = Idle
    /\ \/ proc # "none"
       \/ FallbackPending
       \/ \E w \in DOMAIN workers : workers[w].pc # "done"

\* The caller's signal aborts, or the timer of DEFAULT_TIMEOUT_MS fires:
\* the abort listeners run (onAbort: aborted = true; proc.kill()).
SignalAbort ==
    /\ SearchPending
    /\ ~signalAborted
    /\ signalAborted' = TRUE
    /\ IF proc # "none"
       THEN /\ aborted' = TRUE
            /\ proc' = IF proc = "failed" THEN proc ELSE "killed"
       ELSE UNCHANGED <<aborted, proc>>
    /\ UNCHANGED <<pathVars, corpus, blockedFiles, stdout, entries, entryIndex, matches,
                   matchCount, truncated, stop, nextFileIndex, workers>>
    /\ UNCHANGED laterVars

InitSearch ==
    /\ roots = <<<<WS>>>>
    /\ rootsReal = NoLinks
    /\ links = NoLinks
    /\ call = Idle
    /\ ret = Idle
    /\ corpus \in Corpora
    /\ blockedFiles \in BlockedSets
    /\ signalAborted = FALSE
    /\ LocalsAtRest
    /\ LaterAtRest

NextSearch ==
    \/ SearchStart \/ SearchHandleLine \/ SearchExit \/ SearchSpawnError
    \/ FallbackScan \/ FallbackReturn
    \/ GrepStart \/ GrepStat \/ GrepRead \/ GrepFinish
    \/ RipgrepStart \/ RipgrepHandleLine \/ RipgrepExit
    \/ SignalAbort \/ Return

SpecSearch == InitSearch /\ [][NextSearch]_vars

\* grepTool alone.  A stat or a read that was started completes, and
\* Promise.all resolves once every worker has returned.
NextPool ==
    \/ GrepStart \/ GrepStat \/ GrepRead \/ GrepFinish
    \/ SignalAbort \/ Return

\* The corpora the pool is run on: a file holds no occurrence, one, or one
\* on every line.
PoolCorpora == [Files -> {{}, {1}, LineNumbers}]

InitPool ==
    /\ roots = <<<<WS>>>>
    /\ rootsReal = NoLinks
    /\ links = NoLinks
    /\ call = Idle
    /\ ret = Idle
    /\ corpus \in PoolCorpora
    /\ blockedFiles \in BlockedSets
    /\ signalAborted = FALSE
    /\ LocalsAtRest
    /\ LaterAtRest

SpecPool ==
    /\ InitPool
    /\ [][NextPool]_vars
    /\ WF_vars(GrepStat) /\ WF_vars(GrepRead) /\ WF_vars(GrepFinish)

-----------------------------------------------------------------------------
(* The same search run twice against an unchanged corpus *)

\* grepTool up to the first wait of every worker; the listing fast-glob
\* gave is kept with the request, so that two runs over the same listing
\* can be compared.
RerunGrepStart ==
    /\ call = Idle
    /\ \E n \in 1..MaxMatchesArg, order \in Orders :
         LET started == startWorkers(order, 1, 0)
         IN  /\ call' = [kind |-> "grep", maxMatches |-> n, files |-> order]
             /\ entries' = order
             /\ workers' = started.workers
             /\ nextFileIndex' = started.nextFileIndex
    /\ UNCHANGED <<roots, rootsReal, links, ret, corpus, blockedFiles,
                   signalAborted, proc, stdout, entryIndex, matches, matchCount,
                   truncated, aborted, stop>>
    /\ UNCHANGED laterVars

\* searchFileContentTool with no ripgrep to be had, up to the first read of
\* fallbackSearch; the listing is kept with the request.
RerunFallbackStart ==
    /\ call = Idle
    /\ \E n \in 1..MaxMatchesArg, cap \in OutputByteCaps, order \in Orders :
         /\ call' = [kind |-> "search_file_content", maxMatches |-> n,
                     maxOutputBytes |-> cap, rgCmd |-> FALSE, files |-> order]
         /\ entries' = order
    /\ UNCHANGED <<roots, rootsReal, links, ret, corpus, blockedFiles,
                   signalAborted, proc, stdout, entryIndex, matches, matchCount,
                   truncated, aborted, stop, nextFileIndex, workers>>
    /\ UNCHANGED laterVars

\* The result is handed back and remembered beside its request.
RerunReturn ==
    /\ call # Idle
    /\ ret # Idle
    /\ lastSearch' = [call |-> call, ret |-> ret]
    /\ call' = Idle
    /\ ret' = Idle
    /\ UNCHANGED <<roots, rootsReal, links, searchVars, ignoreVars, rgVars,
                   parser>>

NextRerun ==
    \/ RerunGrepStart \/ GrepStat \/ GrepRead \/ GrepFinish
    \/ RerunFallbackStart \/ FallbackScan \/ FallbackReturn
    \/ RerunReturn

SpecRerun == InitSearch /\ [][NextRerun]_vars

-----------------------------------------------------------------------------
(* The ignore matcher under file changes and root replacements *)

\* The environment adds or edits an ignore file (its mtime is the clock's
\* new reading), or removes one.
ChangeIgnoreFile ==
    /\ \E f \in IgnoreFileIds :
         \/ /\ clock < MaxClock
            /\ ignoreFiles' = [ignoreFiles EXCEPT ![f] = clock + 1]
            /\ clock' = clock + 1
         \/ /\ ignoreFiles[f] > 0
            /\ ignoreFiles' = [ignoreFiles EXCEPT ![f] = 0]
            /\ clock' = clock
    /\ UNCHANGED <<pathVars, searchVars, lastSearch, rgVars, parser,
                   IGNORE_CACHE, matchersBuilt,
                   compiled, prevCompile, staleBelow>>

\* getPolicyContextForRoot(root) for a root of the registry, and the
\* buildIgnoreFilter(options) it calls: the root compiled is
\* getWorkspaceRoot(), the primary root.
BuildIgnoreFilter ==
    /\ call = Idle
    /\ \E i \in 1..Len(roots), respectGitIgnore \in BOOLEAN :
         LET root == roots[1]
             list == listIgnoreFiles(ignoreFiles, root)
             key == computeIgnoreKey(ignoreFiles, list)
             hit == /\ respectGitIgnore
                    /\ IGNORE_CACHE # Idle
                    /\ IGNORE_CACHE.root = root
                    /\ IGNORE_CACHE.key = key
             ig == [id |-> matchersBuilt + 1,
                    rules |-> IF respectGitIgnore THEN key ELSE <<>>]
             filter == IF hit THEN IGNORE_CACHE.filter ELSE ig
         IN  /\ hit \/ matchersBuilt < MaxMatchers
             /\ IGNORE_CACHE' = IF respectGitIgnore /\ ~hit
                                THEN [kind |-> "cache", root |-> root,
                                      key |-> key, filter |-> ig]
                                ELSE IGNORE_CACHE
             /\ matchersBuilt' = IF hit THEN matchersBuilt ELSE matchersBuilt + 1
             /\ compiled' = [kind |-> "compiled", forRoot |-> roots[i],
                             root |-> root, respectGitIgnore |-> respectGitIgnore,
                             filter |-> filter,
                             read |-> IF hit \/ ~respectGitIgnore THEN <<>> ELSE list,
                             fingerprint |-> Fingerprint(root),
                             ownFiles |-> ContributingFiles(ignoreFiles, roots[i]),
                             prev |-> prevCompile]
             /\ prevCompile' = IF respectGitIgnore
                               THEN [kind |-> "compiled", root |-> root,
                                     fingerprint |-> Fingerprint(root),
                                     filter |-> filter]
                               ELSE prevCompile
    /\ UNCHANGED <<pathVars, searchVars, lastSearch, ignoreFiles, clock, staleBelow,
                   rgVars, parser>>

InitIgnore ==
    /\ roots \in InitialRootConfigs
    /\ rootsReal = NoLinks
    /\ links = NoLinks
    /\ call = Idle
    /\ ret = Idle
    /\ NoSearch
    /\ LaterAtRest

NextIgnore ==
    \/ ChangeIgnoreFile \/ BuildIgnoreFilter \/ setWorkspaceRoots

SpecIgnore == InitIgnore /\ [][NextIgnore]_vars

-----------------------------------------------------------------------------
(* The pure functions, applied to inputs drawn from bounded sets *)

\* The lines of an ignore file: negation, anchor, comment, blank, names.
IgnoreLines == SeqsUpTo({"!", SEP, "#", " ", "n", "m"}, MaxPatLen)

\* The directory of the ignore file relative to the root: "", "a", "a/b".
RelDirs == {<<>>, <<"a">>, <<"a", SEP, "b">>}

\* read_file pages through a text file: the line limit when none is given
\* and the file is too large for a full read.
DEFAULT_PAGED_LINE_LIMIT == 2000

\* An optional number: <<>> when the caller left it out, <<n>> otherwise.
OptNat(S) == {<<>>} \cup {<<n>> : n \in S}

\* The readline loop of readFileTool: lines before the offset are skipped,
\* lines are collected up to the limit, and the first line past a full
\* page closes the reader.
RECURSIVE readLines(_, _, _, _, _)
readLines(file, lineOffset, lineLimit, lineCount, collected) ==
    IF lineCount >= Len(file)
    THEN [collected |-> collected, truncated |-> FALSE,
          lineCount |-> lineCount]
    ELSE IF lineCount < lineOffset
         THEN readLines(file, lineOffset, lineLimit, lineCount + 1, collected)
         ELSE IF lineLimit # <<>> /\ Len(collected) >= lineLimit[1]
              THEN [collected |-> collected, truncated |-> TRUE,
                    lineCount |-> lineCount + 1]
              ELSE readLines(file, lineOffset, lineLimit, lineCount + 1,
                             Append(collected, file[lineCount + 1]))

\* The notice in front of a truncated page.
buildTruncatedMessage(content, start, end, total, nextOffset) ==
    [start |-> start, end |-> end, total |-> total,
     nextOffset |-> nextOffset, content |-> content]

\* readFileTool on a text file inside the workspace: the whole text when
\* the file is small and neither offset nor limit is given, a page
\* otherwise.
readFilePaged(file, offset, limit, allowFullRead) ==
    LET lineOffset == IF offset = <<>> THEN 0 ELSE offset[1]
        lineLimit  == IF limit = <<>> /\ ~allowFullRead
                      THEN <<DEFAULT_PAGED_LINE_LIMIT>> ELSE limit
        loop       == readLines(file, lineOffset, lineLimit, 0, <<>>)
        collected  == loop.collected
        startLine  == lineOffset + 1
        endLine    == lineOffset + Len(collected)
        nextOffset == lineOffset + Len(collected)
        totalLines == lineOffset + Len(collected)
    IN  IF allowFullRead /\ lineLimit = <<>> /\ offset = <<>>
        THEN [kind |-> "read", truncated |-> FALSE, content |-> file]
        ELSE IF loop.truncated
             THEN [kind |-> "read", truncated |-> TRUE,
                   message |-> buildTruncatedMessage(collected, startLine,
                                  endLine, totalLines, nextOffset)]
             ELSE [kind |-> "read", truncated |-> FALSE,
                   content |-> collected]

\* Patterns longer than this are not compiled.
MAX_REGEX_LENGTH == 1000

\* haystack.includes(needle)
includes(hay, needle) ==
    \E i \in 0..(Len(hay) - Len(needle)) :
        SubSeq(hay, i + 1, i + Len(needle)) = needle

\* String.prototype.toLowerCase on the letters used here.
toLowerCase(s) == [i \in DOMAIN s |-> IF s[i] = "A" THEN "a" ELSE s[i]]

\* isProbablySafeRegex: not too long and no repeated wildcard ".*.*".  The
\* test for a quantified group that holds a quantifier needs a ")" to
\* match, which the patterns used here do not have.
isProbablySafeRegex(pattern) ==
    /\ ~(Len(pattern) > MAX_REGEX_LENGTH)
    /\ ~includes(pattern, <<".", "*", ".", "*">>)

\* new RegExp(pattern, flags) throws: "(" opens a group that is never
\* closed.
regExpThrows(pattern) == includes(pattern, <<"(">>)

\* regex.test(line) for a pattern of letters.
regExpTest(pattern, ignoreCase, line) ==
    IF ignoreCase THEN includes(toLowerCase(line), toLowerCase(pattern))
    ELSE includes(line, pattern)

\* fallbackSearch: the choice between the compiled expression and literal
\* matching, and the test of one line.
fallbackLineMatch(input, line) ==
    LET caseSensitive == input.case_sensitive = "true"
        fixedStrings == input.fixed_strings = "true"
        pattern == input.pattern
        hasRegex == ~fixedStrings /\ isProbablySafeRegex(pattern)
                    /\ ~regExpThrows(pattern)
        useFixedStrings == ~hasRegex
    IN  [kind |-> "line_match", useFixedStrings |-> useFixedStrings,
         matched |-> IF useFixedStrings THEN includes(line, pattern)
                     ELSE regExpTest(pattern, ~caseSensitive, line)]

\* The patterns tried: letters, an expression that does not compile, and one
\* the heuristic rejects.
SearchPatterns ==
    (SeqsUpTo({"a", "A"}, MaxLineLen) \ {<<>>})
        \cup {<<"(">>, <<".", "*", ".", "*">>}

\* The lines of the files searched.
SearchedLines == SeqsUpTo({"a", "A", "("}, MaxLineLen)

\* A server at rest: one root, nothing cached, no request in progress.
InitAtRest ==
    /\ roots = <<<<WS>>>>
    /\ rootsReal = NoLinks
    /\ links = NoLinks
    /\ call = Idle
    /\ ret = Idle
    /\ NoSearch
    /\ LaterAtRest

\* addGitIgnoreFile maps a line of the file in relDirPosix.
PrefixLine ==
    /\ call = Idle
    /\ \E dir \in RelDirs, line \in IgnoreLines :
         /\ call' = [kind |-> "prefix", relDirPosix |-> dir, line |-> line]
         /\ ret' = [kind |-> "prefixed",
                    pattern |-> prefixGitIgnorePattern(dir, line)]
    /\ UNCHANGED <<roots, rootsReal, links, searchVars, laterVars>>

\* The matches a search may have collected: one or more distinct
\* occurrences, in the order of arrival, at most maxMatches of them.
CollectedMatches ==
    {ms \in SeqsUpTo({GrepMatch(f, l) : f \in Files, l \in LineNumbers},
                     MaxMatchesArg) :
        /\ ms # <<>>
        /\ \A i, j \in DOMAIN ms : ms[i] = ms[j] => i = j}

\* searchFileContentTool renders what it collected.
FormatMatches ==
    /\ call = Idle
    /\ \E ms \in CollectedMatches, n \in 1..MaxMatchesArg,
          matchTruncated \in BOOLEAN,
          cap \in 1..MaxByteCap \cup {DEFAULT_MAX_OUTPUT_BYTES} :
         /\ Len(ms) <= n
         /\ Len(ms) = n => matchTruncated
         /\ call' = [kind |-> "format", matches |-> ms, maxMatches |-> n,
                     matchTruncated |-> matchTruncated, maxOutputBytes |-> cap]
         /\ ret' = [kind |-> "formatted",
                    out |-> formatCompactMatchesOutput(ms, n, matchTruncated, cap)]
    /\ UNCHANGED <<roots, rootsReal, links, searchVars, laterVars>>

\* read_file on a text file of up to MaxFileLines lines; line i reads i.
ReadPaged ==
    /\ call = Idle
    /\ \E T \in 0..MaxFileLines, offset \in OptNat(0..MaxFileLines),
          limit \in OptNat(1..MaxFileLines), allowFullRead \in BOOLEAN :
         LET file == [i \in 1..T |-> i]
         IN  /\ call' = [kind |-> "read_paged", file |-> file,
                         offset |-> offset, limit |-> limit,
                         allowFullRead |-> allowFullRead]
             /\ ret' = readFilePaged(file, offset, limit, allowFullRead)
    /\ UNCHANGED <<roots, rootsReal, links, searchVars, laterVars>>

\* fallbackSearch tests one line of a file against the pattern.
MatchLine ==
    /\ call = Idle
    /\ \E pattern \in SearchPatterns, line \in SearchedLines,
          cs \in OptBool, fs \in OptBool :
         LET input == [pattern |-> pattern, case_sensitive |-> cs,
                       fixed_strings |-> fs]
         IN  /\ call' = [kind |-> "match_line", input |-> input, line |-> line]
             /\ ret' = fallbackLineMatch(input, line)
    /\ UNCHANGED <<roots, rootsReal, links, searchVars, laterVars>>

NextPure == PrefixLine \/ FormatMatches \/ ReadPaged \/ MatchLine \/ Return

SpecPure == InitAtRest /\ [][NextPure]_vars

-----------------------------------------------------------------------------
(* Strategy selection: the probe for rg and the download, search by search *)

\* The part of the state strategy selection leaves alone.
RgFrame == UNCHANGED <<pathVars, searchVars, lastSearch, ignoreVars, parser>>

\* searchFileContentTool reaches haveRgOnPath(): a cached answer is used,
\* otherwise "rg --version" is spawned and the search waits for it.
HaveRgOnPath(s) ==
    /\ searches[s].pc = "idle"
    /\ rgLog.started < MaxSearches
    /\ CASE RG_ON_PATH = "null" ->
              /\ searches' = [searches EXCEPT ![s].pc = "probing"]
              /\ rgLog' = [rgLog EXCEPT !.started = @ + 1, !.probes = @ + 1]
         [] RG_ON_PATH = "true" ->
              /\ searches' = [searches EXCEPT ![s] = [pc |-> "selected",
                                                       rgCmd |-> "rg"]]
              /\ rgLog' = [rgLog EXCEPT !.started = @ + 1]
         [] RG_ON_PATH = "false" ->
              /\ searches' = [searches EXCEPT ![s].pc = "local_check"]
              /\ rgLog' = [rgLog EXCEPT !.started = @ + 1]
    /\ UNCHANGED <<RG_ON_PATH, rgEnv>>
    /\ RgFrame

\* The probe's "exit" (code 0 when rg is on PATH) or "error" event: the
\* answer is cached, and the search goes on to spawn rg or to look for a
\* downloaded one.
ProbeExit(s) ==
    /\ searches[s].pc = "probing"
    /\ RG_ON_PATH' = IF rgEnv.onPath THEN "true" ELSE "false"
    /\ searches' = [searches EXCEPT ![s] =
                       IF rgEnv.onPath THEN [pc |-> "selected", rgCmd |-> "rg"]
                       ELSE [pc |-> "local_check", rgCmd |-> "none"]]
    /\ UNCHANGED <<rgEnv, rgLog>>
    /\ RgFrame

\* ensureLocalRg up to the download: a binary that is already in the bin
\* directory is taken, otherwise downloadRipGrep is called.
EnsureLocalRg(s) ==
    /\ searches[s].pc = "local_check"
    /\ IF rgEnv.local
       THEN /\ searches' = [searches EXCEPT ![s] = [pc |-> "selected",
                                                     rgCmd |-> "local"]]
            /\ UNCHANGED rgLog
       ELSE /\ searches' = [searches EXCEPT ![s].pc = "downloading"]
            /\ rgLog' = [rgLog EXCEPT !.downloads = @ + 1,
                                      !.afterFailure = @ \/ rgLog.failed]
    /\ UNCHANGED <<RG_ON_PATH, rgEnv>>
    /\ RgFrame

\* downloadRipGrep settles: the binary is in place, or the call threw and
\* ensureLocalRg returns null, which selects the fallback scanner.
DownloadSettles(s) ==
    /\ searches[s].pc = "downloading"
    /\ \E ok \in BOOLEAN :
         IF ok
         THEN /\ rgEnv' = [rgEnv EXCEPT !.local = TRUE]
              /\ searches' = [searches EXCEPT ![s] = [pc |-> "selected",
                                                       rgCmd |-> "local"]]
              /\ UNCHANGED rgLog
         ELSE /\ searches' = [searches EXCEPT ![s] = [pc |-> "selected",
                                                       rgCmd |-> "fallback"]]
              /\ rgLog' = [rgLog EXCEPT !.failed = TRUE]
              /\ UNCHANGED rgEnv
    /\ UNCHANGED RG_ON_PATH
    /\ RgFrame

\* The search runs with the strategy selected and returns.
SearchDone(s) ==
    /\ searches[s].pc = "selected"
    /\ searches' = [searches EXCEPT ![s] = [pc |-> "idle", rgCmd |-> "none"]]
    /\ UNCHANGED <<RG_ON_PATH, rgEnv, rgLog>>
    /\ RgFrame

\* A process on a machine with or without rg on PATH, with or without a
\* binary downloaded by an earlier process.
InitRg ==
    /\ roots = <<<<WS>>>>
    /\ rootsReal = NoLinks
    /\ links = NoLinks
    /\ call = Idle
    /\ ret = Idle
    /\ NoSearch
    /\ lastSearch = Idle
    /\ ignoreFiles = [f \in IgnoreFileIds |-> 0]
    /\ IgnoreAtRest
    /\ rgEnv \in [onPath : BOOLEAN, local : BOOLEAN]
    /\ RgAtRest
    /\ parser = ParserAtRest

NextRg ==
    \/ \E s \in 1..MaxConcurrent : HaveRgOnPath(s)
    \/ \E s \in 1..MaxConcurrent : ProbeExit(s)
    \/ \E s \in 1..MaxConcurrent : EnsureLocalRg(s)
    \/ \E s \in 1..MaxConcurrent : DownloadSettles(s)
    \/ \E s \in 1..MaxConcurrent : SearchDone(s)

SpecRg == InitRg /\ [][NextRg]_vars

-----------------------------------------------------------------------------
(* The parser of the subprocess's output, chunk by chunk *)

\* The subprocess is spawned and parseRipgrepJson listens to it: stdout
\* holds the characters it will write.
ParseStart ==
    /\ call = Idle
    /\ \E stream \in SeqsUpTo(StreamChars, MaxStream), n \in 1..MaxMatchesArg :
         /\ call' = [kind |-> "parse", stream |-> stream, maxMatches |-> n]
         /\ stdout' = stream
    /\ proc' = "running"
    /\ parser' = ParserAtRest
    /\ UNCHANGED <<roots, rootsReal, links, ret, corpus, blockedFiles,
                   signalAborted, entries, entryIndex, matches, matchCount,
                   truncated, aborted, stop, nextFileIndex, workers>>
    /\ UNCHANGED <<lastSearch, ignoreVars, rgVars>>

\* A "data" event: the next characters arrive as one chunk, of any length.
\* What a killed subprocess had written may still arrive.
ParseData ==
    /\ call.kind = "parse" /\ ret = Idle
    /\ proc # "none"
    /\ \E k \in 1..Len(stdout) :
         LET chunk == SubSeq(stdout, 1, k)
             r == onData([matches |-> matches, truncated |-> truncated,
                          kill |-> FALSE], parser.pending, chunk,
                         call.maxMatches)
         IN  /\ matches' = r.matches
             /\ truncated' = r.truncated
             /\ proc' = IF r.kill THEN "killed" ELSE proc
             /\ parser' = [pending |-> r.pending,
                           chunks |-> Append(parser.chunks, chunk)]
             /\ stdout' = SubSeq(stdout, k + 1, Len(stdout))
    /\ UNCHANGED <<pathVars, corpus, blockedFiles, signalAborted, entries,
                   entryIndex, matchCount, aborted, stop, nextFileIndex,
                   workers>>
    /\ UNCHANGED <<lastSearch, ignoreVars, rgVars>>

\* The "exit" event, after the output was read or after a kill: the pending
\* text is flushed and parseRipgrepJson returns.
ParseExit ==
    /\ call.kind = "parse" /\ ret = Idle
    /\ proc # "none"
    /\ stdout = <<>> \/ proc = "killed"
    /\ LET r == onExit([matches |-> matches, truncated |-> truncated,
                        kill |-> FALSE], parser.pending, call.maxMatches)
       IN  ret' = [kind |-> "parsed", matches |-> r.matches,
                   truncated |-> r.truncated, chunks |-> parser.chunks]
    /\ parser' = ParserAtRest
    /\ ReturnLocals
    /\ UNCHANGED <<roots, rootsReal, links, call, corpus, blockedFiles,
                   signalAborted>>
    /\ UNCHANGED <<lastSearch, ignoreVars, rgVars>>

NextParse == ParseStart \/ ParseData \/ ParseExit \/ Return

SpecParse == InitAtRest /\ [][NextParse]_vars

-----------------------------------------------------------------------------
(* Properties of the path resolver *)

\* The normalized absolute form of the path of the current request.
RequestedAbs == Normalize(absOf(roots[1], call.path))

\* C1: resolveWithinWorkspace either returns the normalized caller path,
\* and that path is a root or a descendant of a root (segment by segment, so
\* "/ws-e" is not inside "/ws"), or it fails with the outside-workspace
\* error.
C1_Containment ==
    (call.kind = "resolve" /\ ret.kind = "resolved") =>
        IF ret.ok
        THEN /\ ret.absPath = RequestedAbs
             /\ \E i \in 1..Len(roots) :
                  /\ ret.root = roots[i]
                  /\ IsAncestorOrSelf(roots[i], ret.absPath)
        ELSE ret.error = "path_not_in_workspace"

\* A path with ".." segments was resolved into a root.
C1_Witness ==
    /\ call.kind = "resolve" /\ ret.kind = "resolved" /\ ret.ok
    /\ \E i \in 1..Len(call.path.segs) : call.path.segs[i] = DOTDOT
    /\ Len(ret.absPath) > Len(ret.root)

\* The canonical location of the nearest existing ancestor of p: the longest
\* prefix of p that exists, with its links followed.
CanonicalOfNearestExisting(p) ==
    LET lens == {n \in 0..Len(p) : existsSync(links, SubSeq(p, 1, n))}
        n == CHOOSE m \in lens : \A k \in lens : k <= m
    IN  RealWalk(links, SubSeq(p, 1, n))

\* The canonical form of a root on the file system as it is now.
CanonicalRoot(R) == IF RealWalk(links, R) \in RealNodes THEN RealWalk(links, R) ELSE R

\* Root R can own p: p is literally inside R and the canonical location of
\* p's nearest existing ancestor is inside the canonical form of R.
MayOwn(R, p) ==
    /\ IsAncestorOrSelf(R, p)
    /\ IsAncestorOrSelf(CanonicalRoot(R), CanonicalOfNearestExisting(p))

\* C2: a root whose canonical form does not contain the canonical location
\* of the path's nearest existing ancestor does not accept the path, and when
\* no root accepts it the call fails with the outside-workspace error, also
\* for a target that does not exist yet.
C2_SymlinkEscape ==
    (call.kind = "resolve" /\ ret.kind = "resolved") =>
        /\ ret.ok => MayOwn(ret.root, RequestedAbs)
        /\ (\A i \in 1..Len(roots) : ~MayOwn(roots[i], RequestedAbs)) =>
               (~ret.ok /\ ret.error = "path_not_in_workspace")

\* A path that does not exist yet, literally inside a root, was refused
\* because its nearest existing ancestor is a link leaving the root.
C2_Witness ==
    /\ call.kind = "resolve" /\ ret.kind = "resolved" /\ ~ret.ok
    /\ \E i \in 1..Len(roots) : IsAncestorOrSelf(roots[i], RequestedAbs)
    /\ ~existsSync(links, RequestedAbs)
    /\ \E n \in 1..Len(RequestedAbs) : SubSeq(RequestedAbs, 1, n) \in DOMAIN links

\* The canonical form of a root as the registry knows it: the form noted
\* when the root was first compared, the form on the file system otherwise.
KnownCanonical(R) ==
    IF R \in DOMAIN rootsReal THEN rootsReal[R] ELSE CanonicalRoot(R)

\* Root R passes both checks for p: p is literally inside R, and the
\* canonical location of p's nearest existing ancestor is inside the
\* canonical form of R.
PassesBoth(R, p) ==
    /\ IsAncestorOrSelf(R, p)
    /\ IsAncestorOrSelf(KnownCanonical(R), CanonicalOfNearestExisting(p))

\* The positions in the registry of the roots that pass both checks for the
\* requested path.
OwningPositions == {i \in 1..Len(roots) : PassesBoth(roots[i], RequestedAbs)}

\* C21: the owning root returned is the first root in registry order that
\* passes both the literal containment check and the symlink-escape check;
\* a later root is returned only when every earlier root fails one of them.
C21_FirstOwner ==
    (call.kind = "resolve" /\ ret.kind = "resolved") =>
        IF OwningPositions = {}
        THEN ~ret.ok
        ELSE /\ ret.ok
             /\ \E i \in OwningPositions :
                  /\ ret.root = roots[i]
                  /\ \A j \in OwningPositions : i <= j

\* With a root nested in an earlier one, a path inside both went to the
\* earlier, outer root.
C21_Witness ==
    /\ call.kind = "resolve" /\ ret.kind = "resolved" /\ ret.ok
    /\ OwningPositions = {1, 2}
    /\ roots[1] # roots[2]
    /\ Len(roots[1]) < Len(roots[2])
    /\ ret.root = roots[1]

-----------------------------------------------------------------------------
(* Properties of the policy engine *)

IsToolCall ==
    call.kind \in {"write_file", "replace", "read_file", "list_directory",
                   "glob", "search_file_content"}

\* The roots that literally contain the requested path.
OwnerIndexes == {i \in 1..Len(roots) : IsAncestorOrSelf(roots[i], RequestedAbs)}

\* The segments of the requested path below its owning root, the first root
\* in registry order that contains it.
OwnerRelSegs ==
    LET i == CHOOSE k \in OwnerIndexes : \A j \in OwnerIndexes : k <= j
    IN  SubSeq(RequestedAbs, Len(roots[i]) + 1, Len(RequestedAbs))

\* The classifier's verdict on a sequence of segments.
ClassifiedSensitive(segs) == segs # <<>> /\ isSensitivePath(JoinWith(segs, SEP))

\* C3: a path the classifier calls sensitive is decided "sensitive" under
\* every combination of no_ignore, respect_git_ignore,
\* file_filtering_options.respect_git_ignore and the context default, and
\* every tool gate rejects it with SENSITIVE_PATH.
C3_SensitivityAbsolute ==
    /\ (ret.kind = "decision" /\ ClassifiedSensitive(call.path.segs)) =>
           ret.reason = "sensitive"
    /\ (IsToolCall /\ ret.kind = "gate" /\ OwnerIndexes # {}
            /\ ClassifiedSensitive(OwnerRelSegs)) =>
           (~ret.ok /\ ret.error = "sensitive_path")

\* A sensitive path that the ignore matcher matches too, decided with the
\* ignore rules respected.
C3_Witness ==
    /\ ret.kind = "decision" /\ ret.reason = "sensitive" /\ ret.respect
    /\ call.path.segs = <<ENV>>
    /\ ENV \in IgnorePatternsOf(roots[1])

\* Sensitivity as the specification states it: the path is or lies under a
\* directory named .git, .hg or .svn at any depth, or its final segment is
\* .env; "." is not sensitive.
SpecSensitive(segs) ==
    /\ segs # <<DOT>>
    /\ \/ \E i \in 1..Len(segs) : segs[i] \in {GIT, HG, SVN}
       \/ segs[Len(segs)] = ENV

\* C4: isSensitivePath is true exactly for the paths that are or lie under a
\* .git, .hg or .svn directory, nested or not, and for the paths whose final
\* segment is .env.
C4_SensitiveClassifier ==
    ret.kind = "decision" => (ret.sensitive <=> SpecSensitive(call.path.segs))

\* The precedence of the ignore-respect inputs, spelled out.
ExpectedRespect(o, outside) ==
    CASE o.no_ignore = "true" -> FALSE
      [] o.no_ignore # "true" /\ o.respect_git_ignore = "true" -> TRUE
      [] o.no_ignore # "true" /\ o.respect_git_ignore = "false" -> FALSE
      [] o.no_ignore # "true" /\ o.respect_git_ignore = "unset"
            /\ o.ffo = "true" -> TRUE
      [] o.no_ignore # "true" /\ o.respect_git_ignore = "unset"
            /\ o.ffo = "false" -> FALSE
      [] OTHER -> ~outside

\* C5: no_ignore=true gives false; otherwise the explicit boolean; otherwise
\* the nested boolean; otherwise the context default (true inside a root,
\* false outside).  no_ignore=false counts as absent.
C5_RespectPrecedence ==
    ret.kind = "decision" => ret.respect = ExpectedRespect(call.opts, call.outside)

\* no_ignore=true beats an explicit respect_git_ignore=true.
C5_Witness ==
    /\ ret.kind = "decision" /\ ~ret.respect
    /\ call.opts.no_ignore = "true" /\ call.opts.respect_git_ignore = "true"

\* The requested path is owned by a root, is not sensitive, and the ignore
\* matcher of its root matches it.
IgnoredNotSensitive ==
    /\ OwnerIndexes # {}
    /\ OwnerRelSegs # <<>>
    /\ ~ClassifiedSensitive(OwnerRelSegs)
    /\ \E i \in 1..Len(OwnerRelSegs) : OwnerRelSegs[i] \in IgnorePatternsOf(roots[1])

\* The caller supplies one of the override inputs.
AnyOverrideSupplied(o) ==
    o.no_ignore = "true" \/ o.respect_git_ignore = "false" \/ o.ffo = "false"

\* The override that is in effect once the precedence is applied.
EffectiveOverride(o) ==
    \/ o.no_ignore = "true"
    \/ o.respect_git_ignore = "false"
    \/ (o.respect_git_ignore = "unset" /\ o.ffo = "false")

-----------------------------------------------------------------------------
(* Properties of the content search *)

\* A search has handed back its result.
SearchReturned == ret.kind = "search_result"

\* The occurrences of the corpus the policy allows.
AllowedOccurrences ==
    UNION {{GrepMatch(f, l) : l \in corpus[f]} : f \in Files \ blockedFiles}

\* The matches of the result: the structured list where the tool has one,
\* the lines of the text otherwise.
ReturnedMatches == IF ret.hasStructured THEN ret.structured ELSE ret.text

ReturnedSet == {ReturnedMatches[i] : i \in DOMAIN ReturnedMatches}

IsOrdered(s) ==
    \A i, j \in DOMAIN s : i < j => compareWith("file_then_line", s[i], s[j]) < 0

\* C7: with max_matches = N and M occurrences allowed by policy, a search
\* that was not cancelled and not cut by the byte cap returns exactly N
\* matches flagged truncated by count when M > N, and all M matches with the
\* flag false when M <= N.
C7_TruncationExactness ==
    (SearchReturned /\ ~signalAborted /\ ~ret.outputTruncated) =>
        LET M == Cardinality(AllowedOccurrences)
            N == call.maxMatches
        IN  IF M > N
            THEN Len(ReturnedMatches) = N /\ ret.truncated
            ELSE /\ ReturnedSet = AllowedOccurrences
                 /\ Len(ReturnedMatches) = M
                 /\ ~ret.truncated

\* C8: the matches of a search truncated by count are the smallest of the
\* corpus in (file path, line number) order: each one precedes every allowed
\* occurrence that was not returned.
C8_SmallestKept ==
    (SearchReturned /\ ~signalAborted /\ ret.truncated /\ ~ret.outputTruncated) =>
        \A m \in ReturnedSet, o \in AllowedOccurrences \ ReturnedSet :
            compareWith("file_then_line", m, o) < 0

\* C9: a search_file_content call whose signal aborted while it was pending
\* returns the aborted outcome, on the subprocess path and in the fallback
\* scanner.
C9_AbortedOutcome ==
    (SearchReturned /\ call.kind = "search_file_content" /\ signalAborted) =>
        ret.outcome = "aborted"

\* C10: the matches of the rendered text, and those of the structured list,
\* are in (file path, line number) ascending order, whichever tool and
\* strategy produced them.
C10_Ordered ==
    SearchReturned =>
        /\ IsOrdered(ret.text)
        /\ ret.hasStructured => IsOrdered(ret.structured)

\* C11: a search with the fallback scanner that repeats the previous request
\* (same arguments, same listing, same corpus) returns what the previous run
\* returned: the same matches in the same order with the same truncation
\* flags, whatever the interleaving of the workers.
C11_Deterministic ==
    (SearchReturned /\ lastSearch # Idle /\ lastSearch.call = call) =>
        ret = lastSearch.ret

-----------------------------------------------------------------------------
(* Properties of the ignore matcher *)

\* The ignore files whose patterns a matcher holds.
RuleFiles(filter) == {filter.rules[i][1] : i \in DOMAIN filter.rules}

C18_Invalidated ==
    /\ \A r \in DOMAIN rootsReal : \E i \in 1..Len(roots) : roots[i] = r
    /\ compiled # Idle => compiled.filter.id > staleBelow

\* C19: the matcher consulted for a path owned by root R holds the patterns
\* of the files that contribute to R (the ignore files under R, R's
\* exclude file, the global files) and of no other root's files.
C19_OwnRootMatcher ==
    (compiled # Idle /\ compiled.respectGitIgnore) =>
        RuleFiles(compiled.filter) = compiled.ownFiles

\* C20: in a compiled matcher the patterns of the user-global ignore files
\* come after those of every repository-local file.
C20_GlobalLast ==
    (compiled # Idle) =>
        \A i, j \in DOMAIN compiled.filter.rules :
            (/\ IgnoreFileTable[compiled.filter.rules[i][1]].kind = "global"
             /\ IgnoreFileTable[compiled.filter.rules[j][1]].kind # "global")
                => j < i

-----------------------------------------------------------------------------
(* Properties of the pure functions *)

\* The paths of up to three segments over the names a, b, n and m.
ProbePaths == SeqsUpTo({<<"a">>, <<"b">>, <<"n">>, <<"m">>}, 3) \ {<<>>}

\* A line holding a bare name: letters only.
IsBareName(line) ==
    line # <<>> /\ \A i \in DOMAIN line : line[i] \in {"n", "m"}

\* C13: prefixGitIgnorePattern drops blank and comment lines and returns
\* the lines of the root-level file unchanged; for a nested file in dir it
\* strips a leading "!" and puts it back in front of the rewritten pattern,
\* which is dir/<pattern without its leading slash> for an anchored
\* pattern, dir/<pattern> for one with an internal slash and dir/**/<name>
\* for a bare name.  So a bare name of a nested file matches the paths
\* below dir that hold the name, at any depth, and no path outside dir.
C13_NestedScope ==
    (call.kind = "prefix") =>
        LET line == call.line
            dir == call.relDirPosix
            isBlank == \A i \in DOMAIN line : line[i] = " "
            isComment ==
                \E i \in DOMAIN line :
                    line[i] = "#" /\ \A j \in 1..(i - 1) : line[j] = " "
            negated == line[1] = "!"
            pat == IF negated THEN Tail(line) ELSE line
            slashes == {i \in DOMAIN pat : pat[i] = SEP}
            rewritten ==
                IF 1 \in slashes THEN dir \o <<SEP>> \o Tail(pat)
                ELSE IF slashes \ {Len(pat)} # {} THEN dir \o <<SEP>> \o pat
                ELSE dir \o <<SEP, "*", "*", SEP>> \o pat
        IN  IF isBlank \/ isComment THEN ret.pattern = NullPattern
            ELSE IF dir = <<>> THEN ret.pattern = line
            ELSE /\ ret.pattern = (IF negated THEN <<"!">> ELSE <<>>) \o rewritten
                 /\ IsBareName(line) =>
                      \A p \in ProbePaths :
                          globMatch(Split(ret.pattern, SEP), p)
                            <=> /\ IsAncestorOrSelf(Split(dir, SEP), p)
                                /\ \E i \in (Len(Split(dir, SEP)) + 1)..Len(p) :
                                     p[i] = line

\* A bare name of the ignore file in a/b was rewritten.
C13_Witness ==
    /\ call.kind = "prefix"
    /\ call.relDirPosix = <<"a", SEP, "b">>
    /\ call.line = <<"n">>
    /\ ret.pattern = <<"a", SEP, "b", SEP, "*", "*", SEP, "n">>

-----------------------------------------------------------------------------
(* Properties of the root registry *)

\* C14: applyMcpRoots(list) with at least one valid file root answers
\* applied = true and leaves in the registry exactly the valid file roots,
\* each once, in the order of their first occurrence; with no valid file
\* root it answers applied = false and leaves the roots, the primary root
\* and the cached state as they were.  setWorkspaceRoots([]) changes nothing.
C14_RootsFrame ==
    [][/\ (call = Idle /\ call'.kind = "apply_mcp_roots") =>
            LET list == call'.list
                fileAt == {i \in DOMAIN list : list[i].scheme = "file"}
                valid == {Normalize(list[i].path) : i \in fileAt}
                first(r) == CHOOSE i \in fileAt :
                                /\ Normalize(list[i].path) = r
                                /\ \A j \in fileAt :
                                     Normalize(list[j].path) = r => i <= j
            IN  IF valid # {}
                THEN /\ ret'.applied
                     /\ {roots'[i] : i \in DOMAIN roots'} = valid
                     /\ Len(roots') = Cardinality(valid)
                     /\ \A a, b \in DOMAIN roots' :
                          a < b => first(roots'[a]) < first(roots'[b])
                ELSE /\ ~ret'.applied
                     /\ UNCHANGED <<roots, rootsReal, ignoreVars>>
       /\ setWorkspaceRootsTo(<<>>) => UNCHANGED <<roots, rootsReal, ignoreVars>>
      ]_vars

\* A list holding a rejected URI and file roots that resolve to /ws was
\* applied.
C14_Witness ==
    /\ call.kind = "apply_mcp_roots"
    /\ ret.applied
    /\ ret.invalidUris # <<>>
    /\ roots = <<<<WS>>>>

\* C17: the registry never holds the same normalized root twice.
C17_NoDuplicateRoots ==
    \A i, j \in DOMAIN roots : roots[i] = roots[j] => i = j

RECURSIVE LinesBytes(_)
\* The bytes of rendered match lines, each with its newline.
LinesBytes(lines) ==
    IF lines = <<>> THEN 0
    ELSE Len(matchLine(Head(lines))) + 1 + LinesBytes(Tail(lines))

\* The rendered lines are a prefix of the collected matches in (path, line)
\* order, and it is the longest one that fits when the output starts with
\* `before` bytes; the marker, the count and the count flag are as claimed.
RenderedWithin(before) ==
    LET out == ret.out
        collected == {call.matches[i] : i \in DOMAIN call.matches}
        rendered == {out.lines[i] : i \in DOMAIN out.lines}
        leftOut == collected \ rendered
    IN  /\ IsOrdered(out.lines)
        /\ rendered \subseteq collected
        /\ \A x \in leftOut : \A y \in rendered :
               compareWith("file_then_line", y, x) < 0
        /\ out.lines # <<>> => before + LinesBytes(out.lines) <= call.maxOutputBytes
        /\ \A x \in leftOut :
               (\A z \in leftOut : compareWith("file_then_line", x, z) <= 0)
                  => before + LinesBytes(out.lines) + LinesBytes(<<x>>)
                       > call.maxOutputBytes
        /\ out.outputTruncated <=> leftOut # {}
        /\ out.count = Len(call.matches)
        /\ out.matchTruncated = call.matchTruncated

\* C15 as stated: the rendered lines are the longest prefix of the sorted
\* collected matches whose own serialized size does not exceed
\* max_output_bytes.
C15_AsStated ==
    (call.kind = "format") => RenderedWithin(0)

\* C15: the rendered lines are the longest prefix of the sorted collected
\* matches that fits in max_output_bytes together with the header line
\* "matches=N"; the byte marker is set exactly when a collected match was
\* left out; the count reported is that of all collected matches, and the
\* count flag is what collection set, whatever the byte cap did.
C15_BytePrefix ==
    (call.kind = "format") =>
        RenderedWithin(Len(headerLine(Len(call.matches))) + 1)

\* Two matches were collected and the byte cap left room for the header
\* and the first, though both lines alone would have fitted.
C15_Witness ==
    /\ call.kind = "format"
    /\ Len(call.matches) = 2
    /\ Len(ret.out.lines) = 1
    /\ ret.out.outputTruncated
    /\ LinesBytes(call.matches) <= call.maxOutputBytes

-----------------------------------------------------------------------------
(* read_file: the page and its notice *)

\* C16: a paged read with offset o and limit l of a file of T lines, with
\* o + l < T, returns exactly lines o+1 .. o+l, and its notice names the
\* file's total line count T and next_offset = o + l.
C16_PagedTotal ==
    (/\ call.kind = "read_paged"
     /\ call.offset # <<>>
     /\ call.limit # <<>>
     /\ call.offset[1] + call.limit[1] < Len(call.file)) =>
        LET o == call.offset[1]
            l == call.limit[1]
        IN  /\ ret.truncated
            /\ ret.message.content = SubSeq(call.file, o + 1, o + l)
            /\ ret.message.start = o + 1
            /\ ret.message.end = o + l
            /\ ret.message.nextOffset = o + l
            /\ ret.message.total = Len(call.file)

-----------------------------------------------------------------------------
(* Properties of strategy selection *)

\* C22: the probe for rg on PATH is spawned at most once per process,
\* whether the searches come one after the other or start before the
\* first probe has finished.
C22_ProbeOnce == rgLog.probes <= 1

\* C23: the download of rg is attempted at most once per process, and no
\* download is attempted after one has failed.
C23_DownloadOnce == rgLog.downloads <= 1 /\ ~rgLog.afterFailure

-----------------------------------------------------------------------------
(* Properties of the output parser *)

FirstN(s, n) == IF Len(s) <= n THEN s ELSE SubSeq(s, 1, n)

RECURSIVE EventsOfLines(_)
\* The match events of a list of lines; a line that is no match event counts
\* for nothing.
EventsOfLines(lines) ==
    IF lines = <<>> THEN <<>>
    ELSE matchEventOf(Head(lines)) \o EventsOfLines(Tail(lines))

\* The match events of the whole output: a line is what stands between two
\* line ends ("\n", or "\r\n"), and the last line needs none.
EventsOfStream(stream) == EventsOfLines(splitCrLf(stream, <<>>))

\* parseRipgrepJson when the whole output arrives in one chunk.
ParsedInOneChunk ==
    LET start == [matches |-> <<>>, truncated |-> FALSE, kill |-> FALSE]
        read == onData(start, <<>>, call.stream, call.maxMatches)
    IN  onExit([matches |-> read.matches, truncated |-> read.truncated,
                kill |-> FALSE], read.pending, call.maxMatches)

\* C24: however the output is cut into chunks, the matches recorded are
\* those recorded when it arrives in one chunk: the match events of its
\* lines in order, up to max_matches of them, lines that are no match event
\* skipped, and the last line taken at exit though no newline ends it.
C24_ChunkIndependent ==
    (call.kind = "parse" /\ ret.kind = "parsed") =>
        /\ ret.matches = ParsedInOneChunk.matches
        /\ ret.truncated = ParsedInOneChunk.truncated
        /\ ret.matches = FirstN(EventsOfStream(call.stream), call.maxMatches)

\* The output came in two chunks, the first ending between "\r" and "\n",
\* and the last match had no newline after it.
C24_Witness ==
    /\ call.kind = "parse" /\ ret.kind = "parsed"
    /\ call.stream = <<"a", "\r", "\n", "b">>
    /\ ret.chunks = <<<<"a", "\r">>, <<"\n", "b">>>>
    /\ Len(ret.matches) = 2

-----------------------------------------------------------------------------
(* Properties of the match cap *)

\* The search read the output of a subprocess.
BySubprocess ==
    \/ call.kind = "ripgrep"
    \/ call.kind = "search_file_content" /\ call.rgCmd

\* C25: matches the subprocess reports for blocked files are dropped and do
\* not count toward max_matches = N: of M allowed occurrences at least
\* min(N, M) are returned, and the result is flagged truncated by count only
\* when the allowed occurrences alone reach N.
C25_BlockedNotCounted ==
    (SearchReturned /\ BySubprocess /\ ~signalAborted /\ ~ret.outputTruncated) =>
        LET M == Cardinality(AllowedOccurrences)
            N == call.maxMatches
        IN  /\ Len(ReturnedMatches) >= (IF M < N THEN M ELSE N)
            /\ ReturnedSet \subseteq AllowedOccurrences
            /\ ret.truncated => M >= N

\* C26: while a search runs, the matches recorded never exceed max_matches,
\* and once the truncated or stop flag is set nothing more is recorded,
\* whatever the order of the workers' reads and whatever the killed
\* subprocess still delivers.
C26_CapHolds ==
    /\ [](call # Idle =>
            /\ Len(matches) <= call.maxMatches
            /\ matchCount <= call.maxMatches)
    /\ [][((truncated \/ stop) /\ ret = Idle /\ ret' = Idle) =>
            (matches' = matches /\ matchCount' = matchCount)]_vars

\* The cap of one match was reached and the subprocess killed; of the four
\* match events it had written, one arrived after the kill and was not
\* recorded, and two are still to come.
C26_Witness ==
    /\ call.kind = "search_file_content" /\ ret = Idle
    /\ proc = "killed" /\ truncated
    /\ call.maxMatches = 1 /\ Len(matches) = 1
    /\ Cardinality(AllowedOccurrences) = 4
    /\ Len(stdout) = 2

-----------------------------------------------------------------------------
(* Properties of the worker pool *)

\* The pool is running.
PoolRunning == call.kind = "grep" /\ ret = Idle

\* Every worker has returned.
PoolDrained == \A w \in DOMAIN workers : workers[w].pc = "done"

\* The positions of the listing from which a step of the pool took a file:
\* those the counter passed in the step.
PositionsPassed == (nextFileIndex + 1)..nextFileIndex'

-----------------------------------------------------------------------------
(* Properties of cancellation and of a failed launch *)

\* A step of search_file_content.
SearchFileContentStep == call'.kind = "search_file_content"

\* C28: once the signal of a search_file_content call has aborted, the call
\* issues no new work: no subprocess is spawned while the signal is aborted,
\* and the fallback scanner reads no further file.
C28_NoWorkAfterAbort ==
    [][SearchFileContentStep =>
         /\ (proc = "none" /\ proc' # "none") => ~signalAborted'
         /\ (signalAborted /\ ret' = Idle) => entryIndex' = entryIndex]_vars

\* C29: when the subprocess cannot be launched, the search is done by the
\* fallback scanner: a corpus with allowed occurrences gives a result with
\* matches, all of them allowed occurrences, and no empty result.
C29_LaunchFailureFallsBack ==
    [][(/\ call.kind = "search_file_content"
        /\ proc = "failed"
        /\ ret' # Idle
        /\ ~signalAborted
        /\ AllowedOccurrences # {}) =>
           /\ ret'.outcome = "matches"
           /\ ret'.count > 0]_vars

-----------------------------------------------------------------------------
(* Properties of the fallback scanner's line test *)

\* C30: when the fallback scanner matches the pattern as a literal and the
\* search is not case-sensitive, a line matches exactly when it contains
\* the pattern without regard to letter case.
C30_LiteralFoldsCase ==
    (/\ call.kind = "match_line"
     /\ ret.useFixedStrings
     /\ call.input.case_sensitive # "true") =>
        (ret.matched <=>
            includes(toLowerCase(call.line), toLowerCase(call.input.pattern)))

=============================================================================
